---- MODULE Spec2Model ----
(***************************************************************************)
(* Model of the iCalendar generator of postgang (src/src/calendar.rs):     *)
(* the content-line folder (ContentLine's Display and next_boundary), the  *)
(* event line sequencer (DeliveryDateIterator) and the calendar line       *)
(* sequencer (CalendarIterator) driven by Calendar's Display.              *)
(*                                                                         *)
(* Text is modelled as its UTF-8 encoding: a sequence of octets 0..255.    *)
(***************************************************************************)
EXTENDS Integers, Sequences, FiniteSets, TLC

----------------------------------------------------------------------------
(* Bounds of the model.                                                    *)

\* longest logical line (in octets) handed to the folder in SpecFold
MaxLen == 156

\* number of leading one-octet characters that shift a pattern's alignment
MaxLead == 3

\* longest record list of a Calendar rendered from its construction on
MaxRecords == 2

\* events left to run, at most, where the rendering of a list of about 256
\* records is taken up
MaxAdvance == 6

\* most items one run of the loop of Calendar's fmt receives (a run that
\* wraps its index never ends by itself)
MaxItems == 100

\* most calls of next on one stand-alone DeliveryDateIterator
MaxCalls == 12

\* most calls of next on one stand-alone CalendarIterator: enough to go
\* through a list of MaxRecords records and to call on after the end
MaxSeqCalls == 30

\* most calls of self.iter() on one Calendar
MaxRenderings == 2

\* longest record list of a Calendar rendered twice side by side
MaxTwoRecords == 1

\* most characters of a text given to NorwegianPostalCode::try_from
MaxPostalChars == 5

\* most octets of a header value or text an ApiKey is made from
MaxKeyLen == 3

----------------------------------------------------------------------------
(* Octets and text.                                                        *)

\* Option<T>: None is the empty tuple, Some(x) the tuple of x alone
None == <<>>

Some(x) == <<x>>

Unwrap(o) == o[1]

\* n copies of the octet sequence s
Rep(s, n) == [i \in 1..(n * Len(s)) |-> s[((i - 1) % Len(s)) + 1]]

\* s[lo..hi) with 0-based offsets, as Rust's &s[lo..hi]
Slice(s, lo, hi) == SubSeq(s, lo + 1, hi)

SetMin(S) == CHOOSE x \in S : \A y \in S : x <= y

SetMax(S) == CHOOSE x \in S : \A y \in S : y <= x

CR == 13
LF == 10
SPACE == 32
BACKSLASH == 92
LOWER_N == 110

\* a plausible slip: lines ended by LF alone
CRLF_LF_ONLY == <<LF>>

\* "\r\n" and "\r\n " as written by ContentLine's Display
CRLF == <<CR, LF>>

\* a plausible slip: the fold marker without its space
CRLF_NO_SPACE == <<CR, LF>>

CRLF_SPACE == <<CR, LF, SPACE>>

\* a UTF-8 continuation octet: !(128..192).contains(&c) is false
IsContinuation(c) == c >= 128 /\ c < 192

----------------------------------------------------------------------------
(* next_boundary and ContentLine's Display.                                *)

MAX_LINE == 75

\* a plausible slip: the continuation budget for the first segment too
LimitOfAlwaysSubsequent(kind) == MAX_LINE - 1

\* a plausible slip: half the budget
LimitOfHalved(kind) ==
    IF kind = "First" THEN MAX_LINE \div 2 ELSE (MAX_LINE \div 2) - 1

\* the budget next_boundary matches on: First(x) => MAX_LINE,
\* Subsequent(x) => MAX_LINE - 1
LimitOf(kind) == IF kind = "First" THEN MAX_LINE ELSE MAX_LINE - 1

\* a plausible slip: cut at the budget without looking for a code point start
next_boundary_naive(kind, content) ==
    LET limit == LimitOf(kind)
        num_bytes == Len(content)
    IN  IF limit >= num_bytes THEN num_bytes ELSE limit

\* a plausible slip: the same budget for first and continuation segments
next_boundary_same_limit(kind, content) ==
    LET limit == MAX_LINE
        num_bytes == Len(content)
    IN  IF limit >= num_bytes
        THEN num_bytes
        ELSE LET found == {i \in 0..limit : ~IsContinuation(content[i + 1])}
             IN  IF found = {} \/ SetMax(found) = 0
                 THEN num_bytes
                 ELSE SetMax(found)

\* a plausible slip: the scan window content[..limit] leaves out index limit
next_boundary_short_window(kind, content) ==
    LET limit == LimitOf(kind)
        num_bytes == Len(content)
    IN  IF limit >= num_bytes
        THEN num_bytes
        ELSE LET found == {i \in 0..(limit - 1) : ~IsContinuation(content[i + 1])}
             IN  IF found = {} \/ SetMax(found) = 0
                 THEN num_bytes
                 ELSE SetMax(found)

\* a plausible slip: position for rposition, the first octet that starts a
\* character is found, which is the one at 0
next_boundary_first_position(kind, content) ==
    LET limit == LimitOf(kind)
        num_bytes == Len(content)
    IN  IF limit >= num_bytes
        THEN num_bytes
        ELSE LET found == {i \in 0..limit : ~IsContinuation(content[i + 1])}
             IN  IF found = {} \/ SetMin(found) = 0
                 THEN num_bytes
                 ELSE SetMin(found)

next_boundary(kind, content) ==
    LET limit == LimitOf(kind)
        num_bytes == Len(content)
    IN  IF limit >= num_bytes
        THEN num_bytes
        ELSE \* content[..=limit].iter().rposition(|&c| !(128..192).contains(&c))
             LET found == {i \in 0..limit : ~IsContinuation(content[i + 1])}
             IN  IF found = {} \/ SetMax(found) = 0
                 THEN num_bytes
                 ELSE SetMax(found)

\* a plausible slip: the line is folded as it is
replace_newline_nothing(s) == s

RECURSIVE replace_newline(_)
\* self.0.replace('\n', "\\n"), computed by halves
replace_newline(s) ==
    IF s = <<>> THEN <<>>
    ELSE IF Len(s) = 1
         THEN (IF s[1] = LF THEN <<BACKSLASH, LOWER_N>> ELSE s)
         ELSE LET half == Len(s) \div 2
              IN  replace_newline(SubSeq(s, 1, half))
                  \o replace_newline(SubSeq(s, half + 1, Len(s)))

RECURSIVE FoldRest(_, _)
\* the while loop of ContentLine's Display, from a remainder and its boundary
FoldRest(content, boundary) ==
    IF boundary < Len(content)
    THEN LET rest == Slice(content, boundary, Len(content))
             b == next_boundary("Subsequent", rest)
         IN  CRLF_SPACE \o Slice(rest, 0, b) \o FoldRest(rest, b)
    ELSE CRLF

\* a plausible slip: no early return for the empty line
ContentLineFmtNoEmptyCheck(line) ==
    LET content == replace_newline(line)
        boundary == next_boundary("First", content)
    IN  Slice(content, 0, boundary) \o FoldRest(content, boundary)

\* everything one call of ContentLine's Display writes
ContentLineFmt(line) ==
    IF line = <<>> THEN <<>>
    ELSE LET content == replace_newline(line)
             boundary == next_boundary("First", content)
         IN  Slice(content, 0, boundary) \o FoldRest(content, boundary)

----------------------------------------------------------------------------
(* Logical lines handed to the folder in SpecFold: valid UTF-8 only, as a  *)
(* Rust String always is.                                                  *)

CHAR_a == <<97>>
CHAR_SPACE == <<SPACE>>
CHAR_LF == <<LF>>
CHAR_CR == <<CR>>
\* U+00F8, the letter in "lørdag" and "søndag"
CHAR_OSLASH == <<195, 184>>
\* U+2623, the sign of test_output_line_display_wide_chars
CHAR_BIOHAZARD == <<226, 152, 163>>
\* U+FE0F, the variation selector that follows it in that test
CHAR_VS16 == <<239, 184, 143>>
\* U+1F600, a four-octet character
CHAR_GRIN == <<240, 159, 152, 128>>
\* "123456789 " of test_output_line_display_over_75 and _75
TEXT_DIGITS == <<49, 50, 51, 52, 53, 54, 55, 56, 57, 32>>

FoldPatterns ==
    { CHAR_a, CHAR_SPACE, CHAR_LF, CHAR_CR, CHAR_OSLASH, CHAR_BIOHAZARD,
      CHAR_GRIN, TEXT_DIGITS,
      CHAR_BIOHAZARD \o CHAR_VS16,
      CHAR_a \o CHAR_OSLASH,
      CHAR_BIOHAZARD \o CHAR_a,
      CHAR_a \o CHAR_LF,
      CHAR_GRIN \o CHAR_OSLASH,
      CHAR_SPACE \o CHAR_GRIN }

\* lead one-octet characters, then a pattern repeated, at most MaxLen octets
FoldInputs ==
    { Rep(CHAR_a, lead) \o Rep(p, n) :
        <<lead, p, n>> \in
          { t \in (0..MaxLead) \X FoldPatterns \X (0..MaxLen) :
              t[1] + t[3] * Len(t[2]) <= MaxLen } }

----------------------------------------------------------------------------
(* Fixed texts of the generator, as octets.                                *)

\* "BEGIN:VCALENDAR"
TEXT_BEGIN_VCALENDAR ==
    <<66, 69, 71, 73, 78, 58, 86, 67, 65, 76, 69, 78, 68, 65, 82>>

\* "VERSION:2.0"
TEXT_VERSION ==
    <<86, 69, 82, 83, 73, 79, 78, 58, 50, 46, 48>>

\* "PRODID:-//Aasan//Aasan Postgang//EN"
TEXT_PRODID ==
    <<80, 82, 79, 68, 73, 68, 58, 45, 47, 47, 65, 97, 115, 97, 110, 47,
    47, 65, 97, 115, 97, 110, 32, 80, 111, 115, 116, 103, 97, 110, 103,
    47, 47, 69, 78>>

\* "CALSCALE:GREGORIAN"
TEXT_CALSCALE ==
    <<67, 65, 76, 83, 67, 65, 76, 69, 58, 71, 82, 69, 71, 79, 82, 73, 65,
    78>>

\* "METHOD:PUBLISH"
TEXT_METHOD ==
    <<77, 69, 84, 72, 79, 68, 58, 80, 85, 66, 76, 73, 83, 72>>

\* "END:VCALENDAR"
TEXT_END_VCALENDAR ==
    <<69, 78, 68, 58, 86, 67, 65, 76, 69, 78, 68, 65, 82>>

\* "BEGIN:VEVENT"
TEXT_BEGIN_VEVENT ==
    <<66, 69, 71, 73, 78, 58, 86, 69, 86, 69, 78, 84>>

\* "DTEND;VALUE=DATE:"
TEXT_DTEND ==
    <<68, 84, 69, 78, 68, 59, 86, 65, 76, 85, 69, 61, 68, 65, 84, 69, 58>>

\* "DTSTAMP:"
TEXT_DTSTAMP ==
    <<68, 84, 83, 84, 65, 77, 80, 58>>

\* "DTSTART;VALUE=DATE:"
TEXT_DTSTART ==
    <<68, 84, 83, 84, 65, 82, 84, 59, 86, 65, 76, 85, 69, 61, 68, 65, 84,
    69, 58>>

\* "SUMMARY:"
TEXT_SUMMARY ==
    <<83, 85, 77, 77, 65, 82, 89, 58>>

\* ": Posten kommer "
TEXT_POSTEN_KOMMER ==
    <<58, 32, 80, 111, 115, 116, 101, 110, 32, 107, 111, 109, 109, 101,
    114, 32>>

\* "TRANSP:TRANSPARENT"
TEXT_TRANSP ==
    <<84, 82, 65, 78, 83, 80, 58, 84, 82, 65, 78, 83, 80, 65, 82, 69, 78,
    84>>

\* "UID:postgang-"
TEXT_UID ==
    <<85, 73, 68, 58, 112, 111, 115, 116, 103, 97, 110, 103, 45>>

\* "URL:https://www.posten.no/levering-av-post/"
TEXT_URL ==
    <<85, 82, 76, 58, 104, 116, 116, 112, 115, 58, 47, 47, 119, 119, 119,
    46, 112, 111, 115, 116, 101, 110, 46, 110, 111, 47, 108, 101, 118,
    101, 114, 105, 110, 103, 45, 97, 118, 45, 112, 111, 115, 116, 47>>

\* "END:VEVENT"
TEXT_END_VEVENT ==
    <<69, 78, 68, 58, 86, 69, 86, 69, 78, 84>>

\* "mandag"
TEXT_mandag ==
    <<109, 97, 110, 100, 97, 103>>

\* "tirsdag"
TEXT_tirsdag ==
    <<116, 105, 114, 115, 100, 97, 103>>

\* "onsdag"
TEXT_onsdag ==
    <<111, 110, 115, 100, 97, 103>>

\* "torsdag"
TEXT_torsdag ==
    <<116, 111, 114, 115, 100, 97, 103>>

\* "fredag"
TEXT_fredag ==
    <<102, 114, 101, 100, 97, 103>>

\* "lørdag"
TEXT_lordag ==
    <<108, 195, 184, 114, 100, 97, 103>>

\* "søndag"
TEXT_sondag ==
    <<115, 195, 184, 110, 100, 97, 103>>

----------------------------------------------------------------------------
(* Formatting helpers.                                                     *)

Digit(d) == 48 + d

\* {:02}
Pad2(n) == IF n < 100 THEN <<Digit(n \div 10), Digit(n % 10)>>
           ELSE <<Digit(n \div 100), Digit((n \div 10) % 10), Digit(n % 10)>>

\* {:04} of a u16
Pad4(n) ==
    (IF n >= 10000 THEN <<Digit(n \div 10000)>> ELSE <<>>)
    \o <<Digit((n \div 1000) % 10), Digit((n \div 100) % 10),
         Digit((n \div 10) % 10), Digit(n % 10)>>

\* {} of a u32 below 100, no padding
Unpadded(n) == IF n < 10 THEN <<Digit(n)>> ELSE Pad2(n)

\* a plausible slip: {} for {:04}, no padding
PostalCodeFmtBare(code) ==
    IF code < 100 THEN Unpadded(code)
    ELSE IF code < 1000
         THEN <<Digit(code \div 100), Digit((code \div 10) % 10),
                Digit(code % 10)>>
         ELSE Pad4(code)

\* Display of NorwegianPostalCode: format_args!("{:04}", self.0)
PostalCodeFmt(code) == Pad4(code)

\* Result<T, E>: the value of Ok or the error of Err
Ok(v) == [value |-> Some(v), err |-> None]

Err(e) == [value |-> None, err |-> Some(e)]

\* u8::is_ascii_digit
is_ascii_digit(c) == c >= 48 /\ c <= 57

\* the largest u16
U16_MAX == 65535

RECURSIVE DecimalValue(_)
\* the number a sequence of ASCII digits writes
DecimalValue(digits) ==
    IF digits = <<>> THEN 0
    ELSE DecimalValue(SubSeq(digits, 1, Len(digits) - 1)) * 10
         + (digits[Len(digits)] - 48)

\* str::parse::<u16>: an optional + and then one or more ASCII digits that
\* write a number no larger than u16::MAX
ParseU16(value) ==
    LET digits == IF value # <<>> /\ value[1] = 43
                  THEN SubSeq(value, 2, Len(value))
                  ELSE value
    IN  IF \/ digits = <<>>
           \/ \E i \in 1..Len(digits) : ~is_ascii_digit(digits[i])
        THEN Err("ParseIntError")
        ELSE IF DecimalValue(digits) > U16_MAX
             THEN Err("ParseIntError")
             ELSE Ok(DecimalValue(digits))

\* a plausible slip: the text is handed to parse unchecked
NorwegianPostalCodeTryFromUnchecked(value) ==
    IF ParseU16(value).err # None
    THEN Err("InvalidPostalCode")
    ELSE Ok(Unwrap(ParseU16(value).value))

\* impl TryFrom<&str> for NorwegianPostalCode; value.len() counts octets
NorwegianPostalCodeTryFrom(value) ==
    IF \/ Len(value) # 4
       \/ ~(\A i \in 1..Len(value) : is_ascii_digit(value[i]))
    THEN Err("InvalidPostalCode")
    ELSE IF ParseU16(value).err # None
         THEN Err("InvalidPostalCode")
         ELSE Ok(Unwrap(ParseU16(value).value))

IsLeapYear(y) == (y % 4 = 0 /\ y % 100 # 0) \/ y % 400 = 0

DaysInMonth(y, m) ==
    IF m = 2 THEN (IF IsLeapYear(y) THEN 29 ELSE 28)
    ELSE IF m \in {4, 6, 9, 11} THEN 30 ELSE 31

\* value.date + Duration::days(1)
AddOneDay(date) ==
    IF date.day < DaysInMonth(date.year, date.month)
    THEN [date EXCEPT !.day = date.day + 1]
    ELSE IF date.month < 12
         THEN [date EXCEPT !.month = date.month + 1, !.day = 1]
         ELSE [year |-> date.year + 1, month |-> 1, day |-> 1]

\* date.weekday() as days from Monday, 0..6
WeekdayFromMonday(date) ==
    LET shift == <<0, 3, 2, 5, 0, 3, 5, 1, 4, 6, 2, 4>>
        y == IF date.month < 3 THEN date.year - 1 ELSE date.year
        fromSunday == (y + (y \div 4) - (y \div 100) + (y \div 400)
                       + shift[date.month] + date.day) % 7
    IN  (fromSunday + 6) % 7

weekday(date) ==
    <<TEXT_mandag, TEXT_tirsdag, TEXT_onsdag, TEXT_torsdag, TEXT_fredag,
      TEXT_lordag, TEXT_sondag>>[WeekdayFromMonday(date) + 1]

\* date.format("%Y%m%d")
format_naive_date(date) == Pad4(date.year) \o Pad2(date.month) \o Pad2(date.day)

\* Display of NaiveDate, as {date} in the UID line: %Y-%m-%d
NaiveDateFmt(date) ==
    Pad4(date.year) \o <<45>> \o Pad2(date.month) \o <<45>> \o Pad2(date.day)

\* timestamp.format("%Y%m%dT%H%M%SZ")
format_timestamp(t) ==
    Pad4(t.year) \o Pad2(t.month) \o Pad2(t.day) \o <<84>>
    \o Pad2(t.hour) \o Pad2(t.minute) \o Pad2(t.second) \o <<90>>

----------------------------------------------------------------------------
(* The event line sequencer: DeliveryDateIterator.                         *)

\* a plausible slip: the state after End starts over
DeliveryDateIteratorStateNextCyclic(s) ==
    CASE s = "Begin" -> Some("DtEnd")
      [] s = "DtEnd" -> Some("DtStamp")
      [] s = "DtStamp" -> Some("DtStart")
      [] s = "DtStart" -> Some("Summary")
      [] s = "Summary" -> Some("Transp")
      [] s = "Transp" -> Some("Uid")
      [] s = "Uid" -> Some("Url")
      [] s = "Url" -> Some("End")
      [] s = "End" -> Some("Begin")
      [] s = "Done" -> None

\* a plausible slip: an arm is left out, Summary is followed by Uid
DeliveryDateIteratorStateNextSkipsTransp(s) ==
    CASE s = "Begin" -> Some("DtEnd")
      [] s = "DtEnd" -> Some("DtStamp")
      [] s = "DtStamp" -> Some("DtStart")
      [] s = "DtStart" -> Some("Summary")
      [] s = "Summary" -> Some("Uid")
      [] s = "Transp" -> Some("Uid")
      [] s = "Uid" -> Some("Url")
      [] s = "Url" -> Some("End")
      [] s = "End" -> Some("Done")
      [] s = "Done" -> None

\* a plausible slip: the arm of End is left out, Url is followed by Done
DeliveryDateIteratorStateNextSkipsEnd(s) ==
    CASE s = "Begin" -> Some("DtEnd")
      [] s = "DtEnd" -> Some("DtStamp")
      [] s = "DtStamp" -> Some("DtStart")
      [] s = "DtStart" -> Some("Summary")
      [] s = "Summary" -> Some("Transp")
      [] s = "Transp" -> Some("Uid")
      [] s = "Uid" -> Some("Url")
      [] s = "Url" -> Some("Done")
      [] s = "End" -> Some("Done")
      [] s = "Done" -> None

\* DeliveryDateIteratorState::next
DeliveryDateIteratorStateNext(s) ==
    CASE s = "Begin" -> Some("DtEnd")
      [] s = "DtEnd" -> Some("DtStamp")
      [] s = "DtStamp" -> Some("DtStart")
      [] s = "DtStart" -> Some("Summary")
      [] s = "Summary" -> Some("Transp")
      [] s = "Transp" -> Some("Uid")
      [] s = "Uid" -> Some("Url")
      [] s = "Url" -> Some("End")
      [] s = "End" -> Some("Done")
      [] s = "Done" -> None

\* a plausible slip: the creation time of the Calendar is not handed on
DeliveryDateIteratorNewWithoutCreated(delivery_date, created) ==
    [delivery_date |-> delivery_date, created |-> None, state |-> "Begin"]

\* DeliveryDateIterator::new
DeliveryDateIteratorNew(delivery_date, created) ==
    [delivery_date |-> delivery_date, created |-> created, state |-> "Begin"]

\* a plausible slip: the clock reading is taken whether or not a value
\* is there
unwrap_or_takes_default(option, default) == default

\* Option::unwrap_or
unwrap_or(option, default) ==
    IF option # None THEN Unwrap(option) ELSE default

\* the line of a state: the match of DeliveryDateIterator::next; `now` is
\* what Utc::now() reads during this call
DeliveryDateIteratorLine(it, now) ==
    LET value == it.delivery_date
    IN  CASE it.state = "Begin" -> Some(TEXT_BEGIN_VEVENT)
          [] it.state = "DtEnd" ->
                Some(TEXT_DTEND \o format_naive_date(AddOneDay(value.date)))
          [] it.state = "DtStamp" ->
                \* self.created.unwrap_or(Utc::now())
                Some(TEXT_DTSTAMP
                     \o format_timestamp(unwrap_or(it.created, now)))
          [] it.state = "DtStart" ->
                Some(TEXT_DTSTART \o format_naive_date(value.date))
          [] it.state = "Summary" ->
                Some(TEXT_SUMMARY \o PostalCodeFmt(value.postal_code)
                     \o TEXT_POSTEN_KOMMER \o weekday(value.date)
                     \o <<SPACE>> \o Unpadded(value.date.day) \o <<46>>)
          [] it.state = "Transp" -> Some(TEXT_TRANSP)
          [] it.state = "Uid" ->
                Some(TEXT_UID \o PostalCodeFmt(value.postal_code)
                     \o <<45>> \o NaiveDateFmt(value.date))
          [] it.state = "Url" -> Some(TEXT_URL)
          [] it.state = "End" -> Some(TEXT_END_VEVENT)
          [] it.state = "Done" -> None

\* DeliveryDateIterator::next: the item returned and the iterator after
DeliveryDateIteratorNext(it, now) ==
    LET res == DeliveryDateIteratorLine(it, now)
        s == DeliveryDateIteratorStateNext(it.state)
    IN  [res |-> res,
         it |-> IF s # None THEN [it EXCEPT !.state = Unwrap(s)] ELSE it]

----------------------------------------------------------------------------
(* The calendar line sequencer: CalendarIterator.                          *)

\* the event index is a u8
U8_MODULUS == 256

\* a plausible slip: the sequencer starts one state on
CalendarIteratorNewAtVersion(calendar) ==
    [calendar |-> calendar,
     state |-> [tag |-> "Preamble", pre |-> "Version"]]

\* CalendarIterator::new
CalendarIteratorNew(calendar) ==
    [calendar |-> calendar,
     state |-> [tag |-> "Preamble", pre |-> "Begin"]]

\* *index + 1 does not fit the u8
IndexOverflows(it) ==
    /\ it.state.tag = "Event"
    /\ it.state.iterator.state = "Done"
    /\ it.state.index + 1 >= U8_MODULUS

\* the last date a NaiveDate holds, NaiveDate::MAX of chrono 0.4 (one year
\* later in its releases before 0.4.32)
NAIVE_DATE_MAX == [year |-> 262142, month |-> 12, day |-> 31]

\* value.date + Duration::days(1) is past the last date: the operator +
\* of NaiveDate panics, in every build
DateOverflows(it) ==
    /\ it.state.tag = "Event"
    /\ it.state.iterator.state = "DtEnd"
    /\ it.state.iterator.delivery_date.date = NAIVE_DATE_MAX

\* *index + 1 where the build wraps on overflow
NextIndex(index) == (index + 1) % U8_MODULUS

\* self.calendar.delivery_dates.get(usize::from(*index))
RecordAt(delivery_dates, index) ==
    IF index < Len(delivery_dates)
    THEN Some(delivery_dates[index + 1])
    ELSE None

\* CalendarIterator::next where *index + 1 does not panic: the item
\* returned and the iterator after
CalendarIteratorNext(it, now) ==
    LET st == it.state
        out(res, next_state) ==
            [res |-> res,
             it |-> IF next_state # None
                    THEN [it EXCEPT !.state = Unwrap(next_state)]
                    ELSE it]
        pre(p) == Some([tag |-> "Preamble", pre |-> p])
    IN  CASE st.tag = "Preamble" ->
              (CASE st.pre = "Begin" ->
                      out(Some(TEXT_BEGIN_VCALENDAR), pre("Version"))
                 [] st.pre = "Version" ->
                      out(Some(TEXT_VERSION), pre("ProdId"))
                 [] st.pre = "ProdId" ->
                      out(Some(TEXT_PRODID), pre("CalScale"))
                 [] st.pre = "CalScale" ->
                      out(Some(TEXT_CALSCALE), pre("Method"))
                 [] st.pre = "Method" ->
                      out(Some(TEXT_METHOD),
                          Some([tag |-> "StartEvent", index |-> 0])))
          [] st.tag = "StartEvent" ->
              LET x == RecordAt(it.calendar.delivery_dates, st.index)
              IN  IF x # None
                  THEN LET r == DeliveryDateIteratorNext(
                                   DeliveryDateIteratorNew(
                                       Unwrap(x), it.calendar.created),
                                   now)
                       IN  out(r.res, Some([tag |-> "Event",
                                            index |-> st.index,
                                            iterator |-> r.it]))
                  ELSE out(Some(TEXT_END_VCALENDAR), Some([tag |-> "Done"]))
          [] st.tag = "Event" ->
              LET r == DeliveryDateIteratorNext(st.iterator, now)
              IN  IF r.res = None
                  THEN out(Some(<<>>), Some([tag |-> "StartEvent",
                                             index |-> NextIndex(st.index)]))
                  ELSE [res |-> r.res,
                        it |-> [it EXCEPT !.state.iterator = r.it]]
          [] st.tag = "Done" -> out(None, None)

----------------------------------------------------------------------------
(* State.                                                                  *)

VARIABLES
    line,       \* ContentLine.0 of the line being displayed (SpecFold)
    content,    \* the local `content`: the escaped remainder
    boundary,   \* the local `boundary`
    w,          \* what has been written to the formatter f so far
    fpc,        \* position in ContentLine's fmt: "start", "loop", "done"
    calendar,   \* the Calendar being displayed: self of Calendar's fmt
    iter,       \* the CalendarIterator of self.iter(): its clone and state
    before,     \* the number of items the loop had received when the run
                \* was taken up: 0 where it is followed from self.iter() on
    items,      \* the content lines the loop has received since, in order
    f,          \* what Calendar's fmt has written to its formatter since
    pc,         \* position in Calendar's fmt: "loop", "returned", "panicked"
    ev,         \* a stand-alone DeliveryDateIterator (SpecEvent)
    ev_res,     \* what its last call of next returned
    ev_calls,   \* the number of calls of next made on it
    ev_items,   \* the lines those calls returned, in order
    seq_res,    \* what the last call of next on `iter` returned, where
                \* the CalendarIterator is called on its own (SpecSequencer)
    seq_calls,  \* the number of calls of next made on `iter`
    renderings, \* the number of times self.iter() has been called
    iter2,      \* the CalendarIterator of a second rendering of `calendar`
    f2,         \* what the second rendering has written to its formatter
    pc2,        \* position in the second rendering: "loop", "returned"
    pcode_input,   \* the &str given to NorwegianPostalCode::try_from
    pcode_result,  \* what try_from returned for it
    pcode_shown,   \* what to_string() of the constructed code gave
    pcode_pc,      \* "start", "constructed", "failed", "shown"
    key_input,  \* the HeaderValue given to ApiKey::new, or the &str given
                \* to ApiKey::try_from
    key_result, \* what the call returned
    key_pc,     \* "start", "made", "failed"
    cli,        \* what Cli::parse() returned: command, code and output
    remote,     \* the dates the Bring API holds for the code
    fs,         \* the file system: what each path holds
    file,       \* the local `file` of try_main, once created
    fetches,    \* the number of calls of endpoint.get made
    cal,        \* the local `cal` of try_main, once fetched
    stdout,     \* what has been written to the standard output
    try_res,    \* what try_main returned, once it has
    exit_code,  \* the ExitCode the process ended with, once it has
    main_pc     \* position in main and try_main: "output", "get", "write",
                \* "returned", "exited", "diverged"

foldVars == <<line, content, boundary, w, fpc>>

calVars == <<calendar, iter, before, items, f, pc>>

evVars == <<ev, ev_res, ev_calls, ev_items>>

seqVars == <<seq_res, seq_calls, renderings>>

twoVars == <<iter2, f2, pc2>>

postalVars == <<pcode_input, pcode_result, pcode_shown, pcode_pc>>

keyVars == <<key_input, key_result, key_pc>>

mainVars == <<cli, remote, fs, file, fetches, cal, stdout, try_res,
              exit_code, main_pc>>

vars == <<line, content, boundary, w, fpc,
          calendar, iter, before, items, f, pc,
          ev, ev_res, ev_calls, ev_items,
          seq_res, seq_calls, renderings,
          iter2, f2, pc2,
          pcode_input, pcode_result, pcode_shown, pcode_pc,
          key_input, key_result, key_pc,
          cli, remote, fs, file, fetches, cal, stdout, try_res,
          exit_code, main_pc>>

----------------------------------------------------------------------------
(* Records, calendars and clock readings the model runs on.                *)

Date(y, m, d) == [year |-> y, month |-> m, day |-> d]

\* DeliveryDate::new(postal_code, date)
DeliveryDateNew(postal_code, date) == [postal_code |-> postal_code, date |-> date]

\* Calendar::new(delivery_dates, created)
CalendarNew(delivery_dates, created) ==
    [delivery_dates |-> delivery_dates, created |-> created]

\* 1970-08-13T00:00:00Z, the creation time of the doctest of Calendar's fmt
CREATED ==
    [year |-> 1970, month |-> 8, day |-> 13,
     hour |-> 0, minute |-> 0, second |-> 0]

\* two readings of Utc::now()
Clock ==
    { [year |-> 2024, month |-> 2, day |-> 29,
       hour |-> 23, minute |-> 59, second |-> 59],
      [year |-> 2024, month |-> 3, day |-> 1,
       hour |-> 0, minute |-> 0, second |-> 0] }

\* one record per weekday, with ends of month and of year and a leap day
SampleSeq ==
    << DeliveryDateNew(7800, Date(1970, 8, 13)),
       DeliveryDateNew(1, Date(1999, 12, 31)),
       DeliveryDateNew(7800, Date(2012, 2, 29)),
       DeliveryDateNew(9999, Date(2023, 2, 28)),
       DeliveryDateNew(7530, Date(2026, 11, 7)),
       DeliveryDateNew(1, Date(2026, 11, 8)),
       DeliveryDateNew(0, Date(2026, 11, 30)) >>

SampleRecords == {SampleSeq[i] : i \in 1..Len(SampleSeq)}

ShortLists == UNION {[1..n -> SampleRecords] : n \in 0..MaxRecords}

Calendars ==
    {CalendarNew(d, c) : d \in ShortLists, c \in {None, Some(CREATED)}}

\* lists that end with a record of the last date a NaiveDate holds
EdgeCalendars ==
    {CalendarNew(d \o <<DeliveryDateNew(7800, NAIVE_DATE_MAX)>>,
                 Some(CREATED)) :
        d \in {<<>>, <<SampleSeq[1]>>}}

\* n records, the samples in turn
LongList(n) == [i \in 1..n |-> SampleSeq[((i - 1) % Len(SampleSeq)) + 1]]

\* lists with as many records as the u8 index has values, one less and
\* one more
LongCalendars ==
    {CalendarNew(LongList(n), Some(CREATED)) :
        n \in {U8_MODULUS - 1, U8_MODULUS, U8_MODULUS + 1}}

EmptyCalendar == CalendarNew(<<>>, None)

\* values of the variables a specification does not run
FoldIdle ==
    /\ line = <<>>
    /\ content = <<>>
    /\ boundary = 0
    /\ w = <<>>
    /\ fpc = "idle"

CalIdle ==
    /\ calendar = EmptyCalendar
    /\ iter = CalendarIteratorNew(EmptyCalendar)
    /\ before = 0
    /\ items = <<>>
    /\ f = <<>>
    /\ pc = "idle"

EvIdle ==
    /\ ev = DeliveryDateIteratorNew(SampleSeq[1], None)
    /\ ev_res = None
    /\ ev_calls = 0
    /\ ev_items = <<>>

SeqIdle ==
    /\ seq_res = None
    /\ seq_calls = 0
    /\ renderings = 0

TwoIdle ==
    /\ iter2 = CalendarIteratorNew(EmptyCalendar)
    /\ f2 = <<>>
    /\ pc2 = "idle"

PostalIdle ==
    /\ pcode_input = <<>>
    /\ pcode_result = Err("idle")
    /\ pcode_shown = None
    /\ pcode_pc = "idle"

KeyIdle ==
    /\ key_input = [bytes |-> <<>>, is_sensitive |-> FALSE]
    /\ key_result = Err("idle")
    /\ key_pc = "idle"

MainIdle ==
    /\ cli = [command |-> [tag |-> "File", input |-> None],
              code |-> 0, output |-> None]
    /\ remote = <<>>
    /\ fs = <<>>
    /\ file = None
    /\ fetches = 0
    /\ cal = None
    /\ stdout = "nothing"
    /\ try_res = None
    /\ exit_code = None
    /\ main_pc = "idle"

----------------------------------------------------------------------------
(* ContentLine's Display, one step per write group.                        *)

InitFold ==
    /\ line \in FoldInputs
    /\ content = <<>>
    /\ boundary = 0
    /\ w = <<>>
    /\ fpc = "start"
    /\ CalIdle
    /\ EvIdle
    /\ SeqIdle
    /\ TwoIdle
    /\ PostalIdle
    /\ KeyIdle
    /\ MainIdle

\* a plausible slip: no early return, the empty line goes through the writes
FmtEmptyNoReturn ==
    /\ fpc = "start"
    /\ line = <<>>
    /\ content' = replace_newline(line)
    /\ boundary' = next_boundary("First", content')
    /\ w' = w \o Slice(content', 0, boundary')
    /\ fpc' = "loop"
    /\ UNCHANGED line
    /\ UNCHANGED <<calVars, evVars, seqVars, twoVars, postalVars, keyVars, mainVars>>

\* if self.0.is_empty() { return Ok(()); }
FmtEmpty ==
    /\ fpc = "start"
    /\ line = <<>>
    /\ fpc' = "done"
    /\ UNCHANGED <<line, content, boundary, w>>
    /\ UNCHANGED <<calVars, evVars, seqVars, twoVars, postalVars, keyVars, mainVars>>

\* escape, first boundary, first write_str
FmtFirst ==
    /\ fpc = "start"
    /\ line # <<>>
    /\ content' = replace_newline(line)
    /\ boundary' = next_boundary("First", content')
    /\ w' = w \o Slice(content', 0, boundary')
    /\ fpc' = "loop"
    /\ UNCHANGED line
    /\ UNCHANGED <<calVars, evVars, seqVars, twoVars, postalVars, keyVars, mainVars>>

\* a plausible slip: content = &content[boundary..] is left out
FmtLoopKeepsRemainder ==
    /\ fpc = "loop"
    /\ boundary < Len(content)
    /\ content' = content
    /\ boundary' = next_boundary("Subsequent", content')
    /\ w' = w \o CRLF_SPACE \o Slice(content', 0, boundary')
    /\ UNCHANGED <<line, fpc>>
    /\ UNCHANGED <<calVars, evVars, seqVars, twoVars, postalVars, keyVars, mainVars>>

\* one iteration of while boundary < content.len()
FmtLoop ==
    /\ fpc = "loop"
    /\ boundary < Len(content)
    /\ content' = Slice(content, boundary, Len(content))
    /\ boundary' = next_boundary("Subsequent", content')
    /\ w' = w \o CRLF_SPACE \o Slice(content', 0, boundary')
    /\ UNCHANGED <<line, fpc>>
    /\ UNCHANGED <<calVars, evVars, seqVars, twoVars, postalVars, keyVars, mainVars>>

\* loop exit and f.write_str("\r\n")
FmtEnd ==
    /\ fpc = "loop"
    /\ ~(boundary < Len(content))
    /\ w' = w \o CRLF
    /\ fpc' = "done"
    /\ UNCHANGED <<line, content, boundary>>
    /\ UNCHANGED <<calVars, evVars, seqVars, twoVars, postalVars, keyVars, mainVars>>

NextFold == FmtEmpty \/ FmtFirst \/ FmtLoop \/ FmtEnd

SpecFold == InitFold /\ [][NextFold]_vars

----------------------------------------------------------------------------
(* Calendar's Display: for content_line in self.iter() { ... }             *)

\* the items the loop has received when the iterator stands at
\* StartEvent(k): the five preamble lines and, for each of the k events
\* before, its nine lines and the empty line of the call that ends it
ItemsAtStartEvent(k) == 5 + 10 * k

\* self.iter() has just been called
InitConstructed ==
    /\ calendar \in Calendars \cup EdgeCalendars
    /\ iter = CalendarIteratorNew(calendar)
    /\ before = 0
    /\ items = <<>>
    /\ f = <<>>
    /\ pc = "loop"

\* the rendering of a long list, taken up where its iterator stands at
\* StartEvent(k) with at most MaxAdvance events left before the index has
\* run through its 256 values; what was emitted up to there is counted in
\* `before` and not kept
InitAdvanced ==
    /\ calendar \in LongCalendars
    /\ \E k \in (U8_MODULUS - MaxAdvance)..(U8_MODULUS - 1) :
         /\ k <= Len(calendar.delivery_dates)
         /\ iter = [calendar |-> calendar,
                    state |-> [tag |-> "StartEvent", index |-> k]]
         /\ before = ItemsAtStartEvent(k)
    /\ items = <<>>
    /\ f = <<>>
    /\ pc = "loop"

Init ==
    /\ InitConstructed \/ InitAdvanced
    /\ FoldIdle
    /\ EvIdle
    /\ SeqIdle
    /\ TwoIdle
    /\ PostalIdle
    /\ KeyIdle
    /\ MainIdle

\* next returns Some(content_line) and content_line.fmt(f) writes it; where
\* *index + 1 overflows this is the step of a build that wraps
FmtSome ==
    /\ pc = "loop"
    /\ Len(items) < MaxItems
    /\ ~DateOverflows(iter)
    /\ \E now \in Clock :
         LET r == CalendarIteratorNext(iter, now)
         IN  /\ r.res # None
             /\ iter' = r.it
             /\ items' = Append(items, Unwrap(r.res))
             /\ f' = f \o ContentLineFmt(Unwrap(r.res))
    /\ UNCHANGED <<calendar, before, pc>>
    /\ UNCHANGED <<foldVars, evVars, seqVars, twoVars, postalVars, keyVars, mainVars>>

\* next returns None: the loop ends and fmt returns Ok(())
FmtNone ==
    /\ pc = "loop"
    /\ \E now \in Clock :
         LET r == CalendarIteratorNext(iter, now)
         IN  /\ r.res = None
             /\ iter' = r.it
    /\ pc' = "returned"
    /\ UNCHANGED <<calendar, before, items, f>>
    /\ UNCHANGED <<foldVars, evVars, seqVars, twoVars, postalVars, keyVars, mainVars>>

\* *index + 1 overflows in a build that checks arithmetic: next panics
FmtPanic ==
    /\ pc = "loop"
    /\ IndexOverflows(iter)
    /\ pc' = "panicked"
    /\ UNCHANGED <<calendar, iter, before, items, f>>
    /\ UNCHANGED <<foldVars, evVars, seqVars, twoVars, postalVars, keyVars, mainVars>>

\* value.date + Duration::days(1) overflows: next panics
FmtPanicDate ==
    /\ pc = "loop"
    /\ DateOverflows(iter)
    /\ pc' = "panicked"
    /\ UNCHANGED <<calendar, iter, before, items, f>>
    /\ UNCHANGED <<foldVars, evVars, seqVars, twoVars, postalVars, keyVars, mainVars>>

Next == FmtSome \/ FmtNone \/ FmtPanic \/ FmtPanicDate

Spec == Init /\ [][Next]_vars

----------------------------------------------------------------------------
(* A DeliveryDateIterator called on its own, also after it is Done.        *)

InitEvent ==
    /\ \E d \in SampleRecords, c \in {None, Some(CREATED)} :
         ev = DeliveryDateIteratorNew(d, c)
    /\ ev_res = None
    /\ ev_calls = 0
    /\ ev_items = <<>>
    /\ FoldIdle
    /\ CalIdle
    /\ SeqIdle
    /\ TwoIdle
    /\ PostalIdle
    /\ KeyIdle
    /\ MainIdle

\* one call of next that returns a line
EventNextSome ==
    /\ ev_calls < MaxCalls
    /\ \E now \in Clock :
         LET r == DeliveryDateIteratorNext(ev, now)
         IN  /\ r.res # None
             /\ ev' = r.it
             /\ ev_res' = r.res
             /\ ev_items' = Append(ev_items, Unwrap(r.res))
    /\ ev_calls' = ev_calls + 1
    /\ UNCHANGED <<foldVars, calVars, seqVars, twoVars, postalVars, keyVars, mainVars>>

\* one call of next that returns None
EventNextNone ==
    /\ ev_calls < MaxCalls
    /\ \E now \in Clock :
         LET r == DeliveryDateIteratorNext(ev, now)
         IN  /\ r.res = None
             /\ ev' = r.it
             /\ ev_res' = r.res
    /\ ev_calls' = ev_calls + 1
    /\ UNCHANGED <<foldVars, calVars, ev_items>>
    /\ UNCHANGED <<seqVars, twoVars, postalVars, keyVars, mainVars>>

NextEvent == EventNextSome \/ EventNextNone

SpecEvent == InitEvent /\ [][NextEvent]_vars

----------------------------------------------------------------------------
(* A CalendarIterator called on its own: next is called also after it has  *)
(* returned None, and self.iter() is called again on the same Calendar.    *)
(* The lists are the short ones, on which *index + 1 does not overflow.    *)

\* self.iter() has just been called for the first time
InitSequencer ==
    /\ calendar \in Calendars
    /\ iter = CalendarIteratorNew(calendar)
    /\ before = 0
    /\ items = <<>>
    /\ f = <<>>
    /\ pc = "calls"
    /\ seq_res = None
    /\ seq_calls = 0
    /\ renderings = 1
    /\ FoldIdle
    /\ EvIdle
    /\ TwoIdle
    /\ PostalIdle
    /\ KeyIdle
    /\ MainIdle

\* one call of next that returns a content line
SequencerNextSome ==
    /\ pc = "calls"
    /\ seq_calls < MaxSeqCalls
    /\ \E now \in Clock :
         LET r == CalendarIteratorNext(iter, now)
         IN  /\ r.res # None
             /\ iter' = r.it
             /\ seq_res' = r.res
             /\ items' = Append(items, Unwrap(r.res))
    /\ seq_calls' = seq_calls + 1
    /\ UNCHANGED <<calendar, before, f, pc, renderings>>
    /\ UNCHANGED <<foldVars, evVars, twoVars, postalVars, keyVars, mainVars>>

\* a plausible slip: the call made when Done starts the sequencer over
SequencerNextNoneStartsOver ==
    /\ pc = "calls"
    /\ seq_calls < MaxSeqCalls
    /\ \E now \in Clock : CalendarIteratorNext(iter, now).res = None
    /\ iter' = CalendarIteratorNew(iter.calendar)
    /\ seq_res' = None
    /\ seq_calls' = seq_calls + 1
    /\ UNCHANGED <<calendar, before, items, f, pc, renderings>>
    /\ UNCHANGED <<foldVars, evVars, twoVars, postalVars, keyVars, mainVars>>

\* one call of next that returns None
SequencerNextNone ==
    /\ pc = "calls"
    /\ seq_calls < MaxSeqCalls
    /\ \E now \in Clock :
         LET r == CalendarIteratorNext(iter, now)
         IN  /\ r.res = None
             /\ iter' = r.it
             /\ seq_res' = r.res
    /\ seq_calls' = seq_calls + 1
    /\ UNCHANGED <<calendar, before, items, f, pc, renderings>>
    /\ UNCHANGED <<foldVars, evVars, twoVars, postalVars, keyVars, mainVars>>

\* a plausible slip: the Calendar hands out the iterator it handed out
\* before, where it stands
SequencerIterResumes ==
    /\ pc = "calls"
    /\ renderings < MaxRenderings
    /\ iter' = iter
    /\ items' = <<>>
    /\ seq_res' = None
    /\ seq_calls' = 0
    /\ renderings' = renderings + 1
    /\ UNCHANGED <<calendar, before, f, pc>>
    /\ UNCHANGED <<foldVars, evVars, twoVars, postalVars, keyVars, mainVars>>

\* self.iter() is called again, after any number of calls of next on the
\* iterator of before: CalendarIterator::new(self.clone())
SequencerIter ==
    /\ pc = "calls"
    /\ renderings < MaxRenderings
    /\ iter' = CalendarIteratorNew(calendar)
    /\ items' = <<>>
    /\ seq_res' = None
    /\ seq_calls' = 0
    /\ renderings' = renderings + 1
    /\ UNCHANGED <<calendar, before, f, pc>>
    /\ UNCHANGED <<foldVars, evVars, twoVars, postalVars, keyVars, mainVars>>

NextSequencer == SequencerNextSome \/ SequencerNextNone \/ SequencerIter

SpecSequencer == InitSequencer /\ [][NextSequencer]_vars

----------------------------------------------------------------------------
(* Two renderings of one Calendar value, their steps interleaved in any    *)
(* order and each call of next reading the clock for itself.               *)

\* lists of the first three sample records, with and without a creation
\* timestamp
TwoCalendars ==
    {CalendarNew(d, c) :
        d \in UNION {[1..n -> {SampleSeq[1], SampleSeq[2], SampleSeq[3]}] :
                        n \in 0..MaxTwoRecords},
        c \in {None, Some(CREATED)}}

\* self.iter() has just been called in both renderings
InitTwo ==
    /\ calendar \in TwoCalendars
    /\ iter = CalendarIteratorNew(calendar)
    /\ before = 0
    /\ items = <<>>
    /\ f = <<>>
    /\ pc = "loop"
    /\ iter2 = CalendarIteratorNew(calendar)
    /\ f2 = <<>>
    /\ pc2 = "loop"
    /\ FoldIdle
    /\ EvIdle
    /\ SeqIdle
    /\ PostalIdle
    /\ KeyIdle
    /\ MainIdle

\* the second rendering: next returns Some(content_line) and
\* content_line.fmt(f) writes it
SecondSome ==
    /\ pc2 = "loop"
    /\ \E now \in Clock :
         LET r == CalendarIteratorNext(iter2, now)
         IN  /\ r.res # None
             /\ iter2' = r.it
             /\ f2' = f2 \o ContentLineFmt(Unwrap(r.res))
    /\ UNCHANGED pc2
    /\ UNCHANGED <<foldVars, calVars, evVars, seqVars, postalVars, keyVars, mainVars>>

\* the second rendering: next returns None and fmt returns Ok(())
SecondNone ==
    /\ pc2 = "loop"
    /\ \E now \in Clock :
         LET r == CalendarIteratorNext(iter2, now)
         IN  /\ r.res = None
             /\ iter2' = r.it
    /\ pc2' = "returned"
    /\ UNCHANGED f2
    /\ UNCHANGED <<foldVars, calVars, evVars, seqVars, postalVars, keyVars, mainVars>>

NextTwo == FmtSome \/ FmtNone \/ SecondSome \/ SecondNone

SpecTwo == InitTwo /\ [][NextTwo]_vars

----------------------------------------------------------------------------
(* A postal code made from text and displayed.                             *)

\* the characters the texts are made of: 0, 1, 9, +, space and the
\* two-octet letter o with stroke
PostalChars == {<<48>>, <<49>>, <<57>>, <<43>>, <<32>>, <<195, 184>>}

RECURSIVE Concat(_)
\* the texts of a sequence of characters, joined
Concat(chars) ==
    IF chars = <<>> THEN <<>> ELSE Head(chars) \o Concat(Tail(chars))

\* every text of at most MaxPostalChars of these characters, and the texts
\* of the doctests and tests: "0001", "7530", "10000"
PostalTexts ==
    {Concat(c) : c \in UNION {[1..n -> PostalChars] : n \in 0..MaxPostalChars}}
    \cup {<<48, 48, 48, 49>>, <<55, 53, 51, 48>>, <<49, 48, 48, 48, 48>>}

InitPostal ==
    /\ pcode_input \in PostalTexts
    /\ pcode_result = Err("not called")
    /\ pcode_shown = None
    /\ pcode_pc = "start"
    /\ FoldIdle
    /\ CalIdle
    /\ EvIdle
    /\ SeqIdle
    /\ TwoIdle
    /\ KeyIdle
    /\ MainIdle

\* NorwegianPostalCode::try_from(value)
PostalTryFrom ==
    /\ pcode_pc = "start"
    /\ pcode_result' = NorwegianPostalCodeTryFrom(pcode_input)
    /\ pcode_pc' = IF pcode_result'.err = None THEN "constructed" ELSE "failed"
    /\ UNCHANGED <<pcode_input, pcode_shown>>
    /\ UNCHANGED <<foldVars, calVars, evVars, seqVars, twoVars, keyVars, mainVars>>

\* format!("{}", postal_code) of the code constructed
PostalDisplay ==
    /\ pcode_pc = "constructed"
    /\ pcode_shown' = Some(PostalCodeFmt(Unwrap(pcode_result.value)))
    /\ pcode_pc' = "shown"
    /\ UNCHANGED <<pcode_input, pcode_result>>
    /\ UNCHANGED <<foldVars, calVars, evVars, seqVars, twoVars, keyVars, mainVars>>

NextPostal == PostalTryFrom \/ PostalDisplay

SpecPostal == InitPostal /\ [][NextPostal]_vars

----------------------------------------------------------------------------
(* An ApiKey made from a HeaderValue or from text.                         *)

\* a HeaderValue: its octets and its sensitive mark
HeaderValue(bytes, is_sensitive) ==
    [bytes |-> bytes, is_sensitive |-> is_sensitive]

\* the tuple struct ApiKey(pub HeaderValue)
ApiKey(value) == [field0 |-> value]

\* an octet a header value may hold: visible ASCII, space or tab
IsHeaderOctet(b) == (b >= 32 /\ b < 127) \/ b = 9

\* HeaderValue::from_str(value): not sensitive
HeaderValueFromStr(value) ==
    IF \A i \in 1..Len(value) : IsHeaderOctet(value[i])
    THEN Ok(HeaderValue(value, FALSE))
    ELSE Err("InvalidHeaderValue")

\* a plausible slip: the value is wrapped as it comes
ApiKeyNewAsGiven(value) == ApiKey(value)

\* ApiKey::new
ApiKeyNew(value) ==
    IF value.is_sensitive
    THEN ApiKey(value)
    ELSE ApiKey([value EXCEPT !.is_sensitive = TRUE])

\* impl TryFrom<&str> for ApiKey
ApiKeyTryFrom(value) ==
    IF HeaderValueFromStr(value).err # None
    THEN Err("InvalidApiKey")
    ELSE Ok(ApiKeyNew(Unwrap(HeaderValueFromStr(value).value)))

\* the octets the inputs are made of: a, ~, space, tab, LF and DEL
KeyOctets == {97, 126, 32, 9, 10, 127}

\* the octets of the input and, where it is a HeaderValue, its mark; a
\* text has no mark
KeyInputs ==
    {HeaderValue(b, m) :
        b \in UNION {[1..n -> KeyOctets] : n \in 0..MaxKeyLen},
        m \in BOOLEAN}

InitApiKey ==
    /\ key_input \in KeyInputs
    /\ key_result = Err("not called")
    /\ key_pc = "start"
    /\ FoldIdle
    /\ CalIdle
    /\ EvIdle
    /\ SeqIdle
    /\ TwoIdle
    /\ PostalIdle
    /\ MainIdle

\* ApiKey::new(value) for a HeaderValue, sensitive or not
ApiKeyNewCall ==
    /\ key_pc = "start"
    /\ HeaderValueFromStr(key_input.bytes).err = None
    /\ key_result' = Ok(ApiKeyNew(key_input))
    /\ key_pc' = "new"
    /\ UNCHANGED key_input
    /\ UNCHANGED <<foldVars, calVars, evVars, seqVars, twoVars, postalVars,
                   mainVars>>

\* ApiKey::try_from(value) for the text of the input
ApiKeyTryFromCall ==
    /\ key_pc = "start"
    /\ ~key_input.is_sensitive
    /\ key_result' = ApiKeyTryFrom(key_input.bytes)
    /\ key_pc' = IF key_result'.err = None THEN "try_from" ELSE "failed"
    /\ UNCHANGED key_input
    /\ UNCHANGED <<foldVars, calVars, evVars, seqVars, twoVars, postalVars,
                   mainVars>>

\* ApiKey::new(key.0) for the header value of a key made before
ApiKeyNewAgain ==
    /\ key_pc \in {"new", "try_from"}
    /\ key_result' = Ok(ApiKeyNew(Unwrap(key_result.value).field0))
    /\ key_pc' = "new again"
    /\ UNCHANGED key_input
    /\ UNCHANGED <<foldVars, calVars, evVars, seqVars, twoVars, postalVars,
                   mainVars>>

NextApiKey == ApiKeyNewCall \/ ApiKeyTryFromCall \/ ApiKeyNewAgain

SpecApiKey == InitApiKey /\ [][NextApiKey]_vars

----------------------------------------------------------------------------
(* The command-line run: main and try_main, from the match on cli.output   *)
(* on. What a path holds is a kind and, for a JSON file of dates and for   *)
(* the document written, the dates; the text of the document is the        *)
(* concern of Calendar's fmt above.                                        *)

Paths == {"dates.json", "postgang.ics"}

FileOf(kind, dates) == [kind |-> kind, dates |-> dates]

\* no file at the path
FileAbsent == FileOf("absent", <<>>)

\* a file that was there before the run and is not JSON of dates
FileOld == FileOf("old", <<>>)

\* a file holding the JSON of an ApiResponse with these dates
FileJson(dates) == FileOf("json", dates)

\* a file just created or truncated by File::create
FileEmpty == FileOf("empty", <<>>)

\* a file holding a proper prefix of the document for these dates
FilePartial(dates) == FileOf("partial", dates)

\* a file holding the document for these dates
FileDocument(dates) == FileOf("document", dates)

\* as many dates as the u8 index of the CalendarIterator has values
LongDates == [i \in 1..U8_MODULUS |-> SampleSeq[1].date]

\* the date lists a response or a JSON file holds
MainDates ==
    { <<>>,
      <<SampleSeq[1].date>>,
      <<SampleSeq[5].date, SampleSeq[6].date>>,
      <<NAIVE_DATE_MAX>>,
      LongDates }

\* the values of Cli after Cli::parse()
Clis ==
    [command : {[tag |-> "Api", input |-> None]}
               \cup {[tag |-> "File", input |-> Some(p)] : p \in Paths},
     code : {1, 7800},
     output : {None} \cup {Some(p) : p \in Paths}]

\* the error try_main returns: the operation that failed and its path
MainError(op, path) == [op |-> op, path |-> path]

\* From<ApiResponseWithPostalCode> for Vec<DeliveryDate>, then
\* From<Vec<DeliveryDate>> for Calendar
CalendarFrom(dates, postal_code) ==
    CalendarNew([i \in 1..Len(dates) |-> DeliveryDateNew(postal_code, dates[i])],
                None)

\* what endpoint.get may return: a response of the API or a failure of
\* the request, or the dates of the JSON file, which cannot be read where
\* the path holds no file or a file that is not JSON of dates
GetOutcomes ==
    IF cli.command.tag = "Api"
    THEN {Ok(remote), Err(MainError("get", ""))}
    ELSE LET path == Unwrap(cli.command.input)
         IN  IF fs[path].kind = "json"
             THEN {Ok(fs[path].dates)}
             ELSE {Err(MainError("get", path))}

\* the dates of `cal`
CalDates(c) == [i \in 1..Len(c.delivery_dates) |-> c.delivery_dates[i].date]

\* Calendar's fmt reaches value.date + Duration::days(1) on the last date
HasLastDate(c) ==
    \E i \in 1..Len(c.delivery_dates) :
        c.delivery_dates[i].date = NAIVE_DATE_MAX

\* Calendar's fmt reaches *index + 1 with the index at its last value
HasIndexOverflow(c) == Len(c.delivery_dates) >= U8_MODULUS

\* the state after lines 61-66: the arguments are parsed and the endpoint
\* is built, nothing is created, fetched or written
InitMain ==
    /\ cli \in Clis
    /\ remote \in MainDates
    /\ fs \in [Paths -> {FileAbsent, FileOld}
                         \cup {FileJson(d) : d \in MainDates}]
    /\ file = None
    /\ fetches = 0
    /\ cal = None
    /\ stdout = "nothing"
    /\ try_res = None
    /\ exit_code = None
    /\ main_pc = "output"
    /\ FoldIdle
    /\ CalIdle
    /\ EvIdle
    /\ SeqIdle
    /\ TwoIdle
    /\ PostalIdle
    /\ KeyIdle

\* the arm Some(path): File::create(&path) creates or truncates the file
MainCreateOk ==
    /\ main_pc = "output"
    /\ cli.output # None
    /\ fs' = [fs EXCEPT ![Unwrap(cli.output)] = FileEmpty]
    /\ file' = cli.output
    /\ main_pc' = "get"
    /\ UNCHANGED <<cli, remote, fetches, cal, stdout, try_res, exit_code>>
    /\ UNCHANGED <<foldVars, calVars, evVars, seqVars, twoVars, postalVars,
                   keyVars>>

\* a plausible slip: the error of File::create is dropped and the run
\* goes on without a file
MainCreateErrIgnored ==
    /\ main_pc = "output"
    /\ cli.output # None
    /\ main_pc' = "get"
    /\ UNCHANGED <<cli, remote, fs, file, fetches, cal, stdout, try_res,
                   exit_code>>
    /\ UNCHANGED <<foldVars, calVars, evVars, seqVars, twoVars, postalVars,
                   keyVars>>

\* the arm Some(path): File::create(&path) fails and ? returns the error
MainCreateErr ==
    /\ main_pc = "output"
    /\ cli.output # None
    /\ try_res' = Some(Err(MainError("create", Unwrap(cli.output))))
    /\ main_pc' = "returned"
    /\ UNCHANGED <<cli, remote, fs, file, fetches, cal, stdout, exit_code>>
    /\ UNCHANGED <<foldVars, calVars, evVars, seqVars, twoVars, postalVars,
                   keyVars>>

\* endpoint.get(cli.code) is about to be called: after File::create in
\* the arm Some(path), at once in the arm None
GetReady ==
    \/ main_pc = "get"
    \/ main_pc = "output" /\ cli.output = None

\* endpoint.get(cli.code).await returns the dates: cal is made of them
MainGetOk ==
    /\ GetReady
    /\ \E r \in GetOutcomes :
         /\ r.err = None
         /\ cal' = Some(CalendarFrom(Unwrap(r.value), cli.code))
    /\ fetches' = fetches + 1
    /\ main_pc' = "write"
    /\ UNCHANGED <<cli, remote, fs, file, stdout, try_res, exit_code>>
    /\ UNCHANGED <<foldVars, calVars, evVars, seqVars, twoVars, postalVars,
                   keyVars>>

\* endpoint.get(cli.code).await fails and ? returns the error
MainGetErr ==
    /\ GetReady
    /\ \E r \in GetOutcomes :
         /\ r.err # None
         /\ try_res' = Some(r)
    /\ fetches' = fetches + 1
    /\ main_pc' = "returned"
    /\ UNCHANGED <<cli, remote, fs, file, cal, stdout, exit_code>>
    /\ UNCHANGED <<foldVars, calVars, evVars, seqVars, twoVars, postalVars,
                   keyVars>>

\* write!(file, "{cal}") or stdout().write_fmt: the document is written
MainWriteOk ==
    /\ main_pc = "write"
    /\ ~HasLastDate(Unwrap(cal))
    /\ ~HasIndexOverflow(Unwrap(cal))
    /\ IF file # None
       THEN /\ fs' = [fs EXCEPT ![Unwrap(file)] =
                                    FileDocument(CalDates(Unwrap(cal)))]
            /\ UNCHANGED stdout
       ELSE /\ stdout' = "document"
            /\ UNCHANGED fs
    /\ try_res' = Some(Ok(<<>>))
    /\ main_pc' = "returned"
    /\ UNCHANGED <<cli, remote, file, fetches, cal, exit_code>>
    /\ UNCHANGED <<foldVars, calVars, evVars, seqVars, twoVars, postalVars,
                   keyVars>>

\* the write fails part way, or before anything is written, and ?
\* returns the error
MainWriteErr ==
    /\ main_pc = "write"
    /\ IF file # None
       THEN /\ \E left \in {FileEmpty, FilePartial(CalDates(Unwrap(cal)))} :
                 fs' = [fs EXCEPT ![Unwrap(file)] = left]
            /\ try_res' = Some(Err(MainError("write", Unwrap(file))))
            /\ UNCHANGED stdout
       ELSE /\ stdout' \in {"nothing", "partial"}
            /\ try_res' = Some(Err(MainError("write", "")))
            /\ UNCHANGED fs
    /\ main_pc' = "returned"
    /\ UNCHANGED <<cli, remote, file, fetches, cal, exit_code>>
    /\ UNCHANGED <<foldVars, calVars, evVars, seqVars, twoVars, postalVars,
                   keyVars>>

\* Calendar's fmt panics while the document is written: on the last date
\* in every build, on the index overflow in a build that checks
\* arithmetic; the process ends with the code of a panic
MainWritePanics ==
    /\ main_pc = "write"
    /\ HasLastDate(Unwrap(cal)) \/ HasIndexOverflow(Unwrap(cal))
    /\ IF file # None
       THEN /\ fs' = [fs EXCEPT ![Unwrap(file)] =
                                    FilePartial(CalDates(Unwrap(cal)))]
            /\ UNCHANGED stdout
       ELSE /\ stdout' = "partial"
            /\ UNCHANGED fs
    /\ exit_code' = Some("PANIC")
    /\ main_pc' = "exited"
    /\ UNCHANGED <<cli, remote, file, fetches, cal, try_res>>
    /\ UNCHANGED <<foldVars, calVars, evVars, seqVars, twoVars, postalVars,
                   keyVars>>

\* in a build that wraps, the index overflow starts the events over and
\* the write never ends
MainWriteDiverges ==
    /\ main_pc = "write"
    /\ HasIndexOverflow(Unwrap(cal))
    /\ ~HasLastDate(Unwrap(cal))
    /\ IF file # None
       THEN /\ fs' = [fs EXCEPT ![Unwrap(file)] =
                                    FilePartial(CalDates(Unwrap(cal)))]
            /\ UNCHANGED stdout
       ELSE /\ stdout' = "partial"
            /\ UNCHANGED fs
    /\ main_pc' = "diverged"
    /\ UNCHANGED <<cli, remote, file, fetches, cal, try_res, exit_code>>
    /\ UNCHANGED <<foldVars, calVars, evVars, seqVars, twoVars, postalVars,
                   keyVars>>

\* main: Ok(_) => ExitCode::SUCCESS, Err(err) => ExitCode::FAILURE
MainExit ==
    /\ main_pc = "returned"
    /\ exit_code' = Some(IF Unwrap(try_res).err = None
                         THEN "SUCCESS" ELSE "FAILURE")
    /\ main_pc' = "exited"
    /\ UNCHANGED <<cli, remote, fs, file, fetches, cal, stdout, try_res>>
    /\ UNCHANGED <<foldVars, calVars, evVars, seqVars, twoVars, postalVars,
                   keyVars>>

NextMain ==
    \/ MainCreateOk
    \/ MainCreateErr
    \/ MainGetOk
    \/ MainGetErr
    \/ MainWriteOk
    \/ MainWriteErr
    \/ MainWritePanics
    \/ MainWriteDiverges
    \/ MainExit

SpecMain == InitMain /\ [][NextMain]_vars

----------------------------------------------------------------------------
(* Reading a folded output back.                                           *)

\* the octet at i belongs to a CRLF that is followed by a space, or is
\* that space, or belongs to the final CRLF
IsFoldOctet(s, i) ==
    LET markAt(j) == /\ j >= 1 /\ j + 2 <= Len(s)
                     /\ s[j] = CR /\ s[j + 1] = LF /\ s[j + 2] = SPACE
        finalAt(j) == /\ j >= 1 /\ j + 1 = Len(s)
                      /\ s[j] = CR /\ s[j + 1] = LF
    IN  \/ markAt(i) \/ markAt(i - 1) \/ markAt(i - 2)
        \/ finalAt(i) \/ finalAt(i - 1)

RECURSIVE UnfoldRange(_, _, _)
UnfoldRange(s, lo, hi) ==
    IF lo > hi THEN <<>>
    ELSE IF lo = hi
         THEN (IF IsFoldOctet(s, lo) THEN <<>> ELSE <<s[lo]>>)
         ELSE LET mid == (lo + hi) \div 2
              IN  UnfoldRange(s, lo, mid) \o UnfoldRange(s, mid + 1, hi)

\* s without every CRLF + single space and without the final CRLF
Unfold(s) == UnfoldRange(s, 1, Len(s))

\* the offsets at which a CRLF starts
CrlfAt(s) == {i \in 1..(Len(s) - 1) : s[i] = CR /\ s[i + 1] = LF}

\* the physical lines of s, each without its CRLF; octets after the last
\* CRLF form one more, unterminated, line
PhysicalLines(s) ==
    LET ends == CrlfAt(s)
        n == Cardinality(ends)
        startOf(e) == IF \E d \in ends : d < e
                      THEN SetMax({d \in ends : d < e}) + 2
                      ELSE 1
        kth(k) == CHOOSE e \in ends : Cardinality({d \in ends : d < e}) = k - 1
        last == IF ends = {} THEN 1 ELSE SetMax(ends) + 2
    IN  [k \in 1..n |-> SubSeq(s, startOf(kth(k)), kth(k) - 1)]
        \o (IF last <= Len(s) THEN <<SubSeq(s, last, Len(s))>> ELSE <<>>)

EndsWithCRLF(s) == Len(s) >= 2 /\ s[Len(s) - 1] = CR /\ s[Len(s)] = LF

NoLF(s) == \A i \in 1..Len(s) : s[i] # LF

CountLF(s) == Cardinality({i \in 1..Len(s) : s[i] = LF})

OnlySingleByte(s) == \A i \in 1..Len(s) : s[i] < 128

RECURSIVE FixedRest(_, _)
\* the continuation lines of s from offset `from`, 74 octets each
FixedRest(s, from) ==
    IF from >= Len(s) THEN <<13, 10>>
    ELSE LET to == IF from + 74 < Len(s) THEN from + 74 ELSE Len(s)
         IN  <<13, 10, 32>> \o SubSeq(s, from + 1, to) \o FixedRest(s, to)

\* s cut after 75 octets and then after every 74
FixedFold(s) == SubSeq(s, 1, 75) \o FixedRest(s, 75)

----------------------------------------------------------------------------
(* Claims about the content-line folder, checked under SpecFold.           *)

\* C1: whenever a segment has been cut and a remainder is left, the octet
\* that starts the next segment is not a UTF-8 continuation octet, for the
\* first segment and for every continuation segment.
C1_NoCutInsideCharacter ==
    (fpc = "loop" /\ boundary < Len(content))
        => ~IsContinuation(content[boundary + 1])

\* C1 witness: a cut made below the budget because a multi-octet character
\* straddles it, with that character starting the next segment.
C1_Witness ==
    /\ fpc = "loop"
    /\ boundary + 1 < Len(content)
    /\ boundary < MAX_LINE - 1
    /\ IsContinuation(content[boundary + 2])
    /\ Len(w) > MAX_LINE

\* C2 as stated: unfolding the output of a finished fold gives back the
\* logical line exactly, for any logical line.
C2_RoundTripAnyLine ==
    fpc = "done" => Unfold(w) = line

\* C2 amended: unfolding the output gives back the logical line with every
\* LF replaced by backslash and n, hence the line itself when it has no LF.
C2_RoundTripEscaped ==
    fpc = "done" =>
        /\ Unfold(w) = replace_newline(line)
        /\ NoLF(line) => Unfold(w) = line

\* C2 witness: a finished fold of a line without LF into three or more
\* physical lines.
C2_Witness ==
    /\ fpc = "done"
    /\ NoLF(line)
    /\ Cardinality(CrlfAt(w)) >= 3
    /\ ~OnlySingleByte(line)

\* C3: each physical line of a finished fold has at most 75 octets without
\* its CRLF, each one after the first starts with a space, and the output
\* holds nothing but the escaped line, one CRLF per physical line and one
\* space per continuation line.
C3_PhysicalLineLimit ==
    (fpc = "done" /\ line # <<>>) =>
        LET pl == PhysicalLines(w)
        IN  /\ EndsWithCRLF(w)
            /\ \A k \in 1..Len(pl) : Len(pl[k]) <= 75
            /\ \A k \in 2..Len(pl) : Len(pl[k]) >= 1 /\ pl[k][1] = SPACE
            /\ Len(w) = Len(line) + CountLF(line) + 2 * Len(pl) + (Len(pl) - 1)

\* C3 witness: a finished fold with a continuation line of exactly 75
\* octets, its added space included.
C3_Witness ==
    /\ fpc = "done"
    /\ LET pl == PhysicalLines(w)
       IN  /\ Len(pl) >= 3
           /\ Len(pl[2]) = 75
           /\ Len(pl[1]) = 75

\* C4 as stated: every logical line of at most 75 octets folds to itself
\* followed by one CRLF.
C4_ShortLineAnyLine ==
    (fpc = "done" /\ Len(line) <= 75) => w = line \o <<13, 10>>

\* C4 amended: every non-empty logical line of at most 75 octets that holds
\* no LF folds to itself followed by one CRLF.
C4_ShortLine ==
    (fpc = "done" /\ line # <<>> /\ Len(line) <= 75 /\ NoLF(line))
        => w = line \o <<13, 10>>

\* C4 witness: a finished fold of a line of exactly 75 octets without LF
\* that holds multi-octet characters.
C4_Witness ==
    /\ fpc = "done"
    /\ Len(line) = 75
    /\ NoLF(line)
    /\ ~OnlySingleByte(line)
    /\ w # <<>>

\* C5 as stated: every logical line of more than 75 octets, all of them
\* one-octet characters, is cut after its first 75 octets and then after
\* every 74.
C5_FixedSplitAnyLine ==
    (fpc = "done" /\ Len(line) > 75 /\ OnlySingleByte(line))
        => w = FixedFold(line)

\* C5 amended: the same for lines that hold no LF.
C5_FixedSplit ==
    (fpc = "done" /\ Len(line) > 75 /\ OnlySingleByte(line) /\ NoLF(line))
        => w = FixedFold(line)

\* C5 witness: a finished fold of such a line long enough for two
\* continuation lines, the last one shorter than 74 octets.
C5_Witness ==
    /\ fpc = "done"
    /\ Len(line) > 75 + 74
    /\ Len(line) < 75 + 74 + 74
    /\ OnlySingleByte(line)
    /\ NoLF(line)

\* C6: the fold of the empty logical line ends with nothing written.
C6_EmptyLineEmitsNothing ==
    (fpc = "done" /\ line = <<>>) => w = <<>>

\* C6 witness: the fold of the empty line has ended.
C6_Witness ==
    /\ fpc = "done"
    /\ line = <<>>

\* the stepwise fold and the one-call fold write the same
FoldStepsAgree ==
    fpc = "done" => w = ContentLineFmt(line)

\* the fold stands at its first segment: the remainder is the whole
\* escaped line
AtFirstSegment == Len(content) = Len(line) + CountLF(line)

\* the budget of the segment the fold stands at
Budget == IF AtFirstSegment THEN 75 ELSE 74

\* C21: whenever a segment has been measured, if the remainder is longer
\* than the budget (75 for the first segment, 74 for a continuation) the
\* boundary is the right-most position p with 0 < p <= budget whose octet
\* is not a continuation octet, so the segment is the longest start of the
\* remainder of at most budget octets that ends where a character starts;
\* otherwise the boundary is the length of the remainder.
C21_SplitPoint ==
    fpc = "loop" =>
        IF Len(content) <= Budget
        THEN boundary = Len(content)
        ELSE /\ boundary \in 1..Budget
             /\ ~(content[boundary + 1] \in 128..191)
             /\ \A q \in (boundary + 1)..Budget : content[q + 1] \in 128..191

\* C21 witness: a continuation segment cut three octets below its budget,
\* before a four-octet character that would straddle it.
C21_Witness ==
    /\ fpc = "loop"
    /\ ~AtFirstSegment
    /\ Len(content) > 74
    /\ boundary = 71
    /\ content[boundary + 1] >= 240

\* C23: every iteration of the folding loop takes the segment measured
\* before it, of one octet or more, off the remainder, so the remainder
\* gets shorter with every iteration and the loop cannot go on for ever;
\* the loop is left exactly when the boundary is the end of the remainder,
\* with one CRLF written; and the output of a non-empty line then ends
\* with one CRLF and not with two.
C23_FoldTerminates ==
    [][/\ (fpc = "start" /\ fpc' = "loop") => boundary' >= 1
       /\ (fpc = "loop" /\ fpc' = "loop") =>
             /\ boundary >= 1
             /\ boundary < Len(content)
             /\ Len(content') = Len(content) - boundary
             /\ Len(content') < Len(content)
             /\ boundary' >= 1
       /\ (fpc = "loop" /\ fpc' = "done") =>
             /\ boundary = Len(content)
             /\ w' = w \o <<13, 10>>
       /\ (fpc' = "done" /\ line' # <<>>) =>
             /\ EndsWithCRLF(w')
             /\ ~EndsWithCRLF(SubSeq(w', 1, Len(w') - 2))]_vars

\* C23 witness: a fold of three physical lines has come to its end.
C23_Witness ==
    /\ fpc = "done"
    /\ Cardinality(CrlfAt(w)) = 3
    /\ Len(line) > 75 + 74
    /\ boundary = Len(content)

\* the offset in the escaped line of the octet at i of the line: every LF
\* before it has become two octets
EscapedOffset(s, i) == i + Cardinality({j \in 1..(i - 1) : s[j] = LF})

\* C24: in the output of a finished fold every LF of the line stands as
\* backslash and n and every other octet as itself; the line is measured
\* after the escaping, so a line is folded when its escaped length is over
\* 75 octets; and an LF stands in the output only after a CR and as the
\* last octet or before the space of a fold; the line "A", LF, "nna" of
\* test_output_line_display_newline gives "A", backslash, "nnna", CRLF.
C24_NewlineEscaped ==
    /\ ContentLineFmt(<<65, 10, 110, 110, 97>>)
           = <<65, 92, 110, 110, 110, 97, 13, 10>>
    /\ (fpc = "done" /\ line # <<>>) =>
          LET u == Unfold(w)
          IN  /\ Len(u) = Len(line) + CountLF(line)
              /\ \A i \in 1..Len(line) :
                   LET o == EscapedOffset(line, i)
                   IN  IF line[i] = 10
                       THEN u[o] = 92 /\ u[o + 1] = 110
                       ELSE u[o] = line[i]
              /\ (Len(line) + CountLF(line) > 75)
                     <=> (Cardinality(CrlfAt(w)) > 1)
              /\ \A i \in 1..Len(w) :
                   w[i] = 10 =>
                       /\ i > 1
                       /\ w[i - 1] = 13
                       /\ i = Len(w) \/ w[i + 1] = 32

\* C24 witness: the fold of a line with an LF in it, of 75 octets or
\* fewer, that is folded because of its escaped length.
C24_Witness ==
    /\ fpc = "done"
    /\ CountLF(line) >= 1
    /\ Len(line) <= 75
    /\ Cardinality(CrlfAt(w)) = 2

\* the fallback arm of next_boundary is never taken: a remainder longer
\* than its budget is never taken whole
FallbackNotTaken ==
    (fpc = "loop" /\ Len(content) > Budget) => boundary <= Budget

----------------------------------------------------------------------------
(* The document and the lines the claims expect.                           *)

\* the five preamble lines of the doctest of Calendar's fmt, CRLF included
EXPECT_PREAMBLE ==
    <<66, 69, 71, 73, 78, 58, 86, 67, 65, 76, 69, 78, 68, 65, 82, 13, 10,
    86, 69, 82, 83, 73, 79, 78, 58, 50, 46, 48, 13, 10, 80, 82, 79, 68,
    73, 68, 58, 45, 47, 47, 65, 97, 115, 97, 110, 47, 47, 65, 97, 115, 97,
    110, 32, 80, 111, 115, 116, 103, 97, 110, 103, 47, 47, 69, 78, 13, 10,
    67, 65, 76, 83, 67, 65, 76, 69, 58, 71, 82, 69, 71, 79, 82, 73, 65,
    78, 13, 10, 77, 69, 84, 72, 79, 68, 58, 80, 85, 66, 76, 73, 83, 72,
    13, 10>>

\* "END:VCALENDAR" and its CRLF
EXPECT_END ==
    <<69, 78, 68, 58, 86, 67, 65, 76, 69, 78, 68, 65, 82, 13, 10>>

\* the event block of the doctest of Calendar's fmt: code 7800, date
\* 1970-08-13, created 1970-08-13T00:00:00Z
EXPECT_DOCTEST_EVENT ==
    <<66, 69, 71, 73, 78, 58, 86, 69, 86, 69, 78, 84, 13, 10, 68, 84, 69,
    78, 68, 59, 86, 65, 76, 85, 69, 61, 68, 65, 84, 69, 58, 49, 57, 55,
    48, 48, 56, 49, 52, 13, 10, 68, 84, 83, 84, 65, 77, 80, 58, 49, 57,
    55, 48, 48, 56, 49, 51, 84, 48, 48, 48, 48, 48, 48, 90, 13, 10, 68,
    84, 83, 84, 65, 82, 84, 59, 86, 65, 76, 85, 69, 61, 68, 65, 84, 69,
    58, 49, 57, 55, 48, 48, 56, 49, 51, 13, 10, 83, 85, 77, 77, 65, 82,
    89, 58, 55, 56, 48, 48, 58, 32, 80, 111, 115, 116, 101, 110, 32, 107,
    111, 109, 109, 101, 114, 32, 116, 111, 114, 115, 100, 97, 103, 32, 49,
    51, 46, 13, 10, 84, 82, 65, 78, 83, 80, 58, 84, 82, 65, 78, 83, 80,
    65, 82, 69, 78, 84, 13, 10, 85, 73, 68, 58, 112, 111, 115, 116, 103,
    97, 110, 103, 45, 55, 56, 48, 48, 45, 49, 57, 55, 48, 45, 48, 56, 45,
    49, 51, 13, 10, 85, 82, 76, 58, 104, 116, 116, 112, 115, 58, 47, 47,
    119, 119, 119, 46, 112, 111, 115, 116, 101, 110, 46, 110, 111, 47,
    108, 101, 118, 101, 114, 105, 110, 103, 45, 97, 118, 45, 112, 111,
    115, 116, 47, 13, 10, 69, 78, 68, 58, 86, 69, 86, 69, 78, 84, 13, 10>>

\* "BEGIN:VEVENT"
EXPECT_BEGIN_VEVENT ==
    <<66, 69, 71, 73, 78, 58, 86, 69, 86, 69, 78, 84>>

\* "DTEND;VALUE=DATE:"
EXPECT_DTEND ==
    <<68, 84, 69, 78, 68, 59, 86, 65, 76, 85, 69, 61, 68, 65, 84, 69, 58>>

\* "DTSTAMP:"
EXPECT_DTSTAMP ==
    <<68, 84, 83, 84, 65, 77, 80, 58>>

\* "DTSTART;VALUE=DATE:"
EXPECT_DTSTART ==
    <<68, 84, 83, 84, 65, 82, 84, 59, 86, 65, 76, 85, 69, 61, 68, 65, 84,
    69, 58>>

\* "SUMMARY:"
EXPECT_SUMMARY ==
    <<83, 85, 77, 77, 65, 82, 89, 58>>

\* ": Posten kommer "
EXPECT_POSTEN ==
    <<58, 32, 80, 111, 115, 116, 101, 110, 32, 107, 111, 109, 109, 101,
    114, 32>>

\* "TRANSP:TRANSPARENT"
EXPECT_TRANSP ==
    <<84, 82, 65, 78, 83, 80, 58, 84, 82, 65, 78, 83, 80, 65, 82, 69, 78,
    84>>

\* "UID:postgang-"
EXPECT_UID ==
    <<85, 73, 68, 58, 112, 111, 115, 116, 103, 97, 110, 103, 45>>

\* "URL:https://www.posten.no/levering-av-post/"
EXPECT_URL ==
    <<85, 82, 76, 58, 104, 116, 116, 112, 115, 58, 47, 47, 119, 119, 119,
    46, 112, 111, 115, 116, 101, 110, 46, 110, 111, 47, 108, 101, 118,
    101, 114, 105, 110, 103, 45, 97, 118, 45, 112, 111, 115, 116, 47>>

\* "END:VEVENT"
EXPECT_END_VEVENT ==
    <<69, 78, 68, 58, 86, 69, 86, 69, 78, 84>>

\* "BEGIN:VCALENDAR"
EXPECT_BEGIN_VCALENDAR ==
    <<66, 69, 71, 73, 78, 58, 86, 67, 65, 76, 69, 78, 68, 65, 82>>

\* a line and its CRLF
Terminated(text) == text \o <<13, 10>>

\* the nine logical lines expected for a record; `stamp` is the time of
\* its DTSTAMP line
ExpectedEventLines(r, stamp) ==
    << EXPECT_BEGIN_VEVENT,
       EXPECT_DTEND \o format_naive_date(AddOneDay(r.date)),
       EXPECT_DTSTAMP \o format_timestamp(stamp),
       EXPECT_DTSTART \o format_naive_date(r.date),
       EXPECT_SUMMARY \o Pad4(r.postal_code) \o EXPECT_POSTEN
           \o weekday(r.date) \o <<32>> \o Unpadded(r.date.day) \o <<46>>,
       EXPECT_TRANSP,
       EXPECT_UID \o Pad4(r.postal_code) \o <<45>> \o NaiveDateFmt(r.date),
       EXPECT_URL,
       EXPECT_END_VEVENT >>

\* the nine physical lines expected for a record
ExpectedEventBlock(r, stamp) ==
    LET l == ExpectedEventLines(r, stamp)
    IN  Terminated(l[1]) \o Terminated(l[2]) \o Terminated(l[3])
        \o Terminated(l[4]) \o Terminated(l[5]) \o Terminated(l[6])
        \o Terminated(l[7]) \o Terminated(l[8]) \o Terminated(l[9])

RECURSIVE ExpectedEvents(_, _, _, _)
\* the event blocks of the records lo..hi, by halves
ExpectedEvents(delivery_dates, stamp, lo, hi) ==
    IF lo > hi THEN <<>>
    ELSE IF lo = hi THEN ExpectedEventBlock(delivery_dates[lo], stamp)
         ELSE LET mid == (lo + hi) \div 2
              IN  ExpectedEvents(delivery_dates, stamp, lo, mid)
                  \o ExpectedEvents(delivery_dates, stamp, mid + 1, hi)

\* the document expected for a Calendar with a fixed creation timestamp
ExpectedDocument(c) ==
    EXPECT_PREAMBLE
    \o ExpectedEvents(c.delivery_dates, Unwrap(c.created),
                      1, Len(c.delivery_dates))
    \o EXPECT_END

\* the Calendar of the doctest of Calendar's fmt
DoctestCalendar ==
    CalendarNew(<<DeliveryDateNew(7800, Date(1970, 8, 13))>>, Some(CREATED))

\* every record of the Calendar has a day after its date
NextDaysExist ==
    \A i \in 1..Len(calendar.delivery_dates) :
        calendar.delivery_dates[i].date # NAIVE_DATE_MAX

\* the events emitted before the run was taken up
EventsBefore == IF before = 0 THEN 0 ELSE (before - 5) \div 10

\* the offsets in a list of lines that hold BEGIN:VEVENT
BeginsIn(lines) == {i \in 1..Len(lines) : lines[i] = EXPECT_BEGIN_VEVENT}

EventOrder ==
    <<"Begin", "DtEnd", "DtStamp", "DtStart", "Summary", "Transp", "Uid",
      "Url", "End", "Done">>

Min(a, b) == IF a < b THEN a ELSE b

----------------------------------------------------------------------------
(* Claims about the two sequencers and the rendered document.              *)

\* C7: the rendering of a Calendar without records never aborts, and when
\* it has returned the output is the five preamble lines and END:VCALENDAR,
\* each with its CRLF, and nothing else.
C7_EmptyCalendar ==
    calendar.delivery_dates = <<>> =>
        /\ pc # "panicked"
        /\ (pc = "returned" /\ before = 0) => f = EXPECT_PREAMBLE \o EXPECT_END

\* C7 witness: the rendering of a Calendar without records has returned.
C7_Witness ==
    /\ pc = "returned"
    /\ before = 0
    /\ calendar.delivery_dates = <<>>
    /\ Len(f) > 0

\* C8: the rendering of a Calendar with a fixed creation timestamp, each
\* date with a day after it, never aborts, and when it has returned the
\* output is the preamble, the nine lines of each record in list order and
\* END:VCALENDAR, each line with its CRLF; for the Calendar of the doctest
\* it is the text of the doctest.
C8_Document ==
    (calendar.created # None /\ NextDaysExist) =>
        /\ pc # "panicked"
        /\ (pc = "returned" /\ before = 0) => f = ExpectedDocument(calendar)
        /\ (pc = "returned" /\ before = 0 /\ calendar = DoctestCalendar)
               => f = EXPECT_PREAMBLE \o EXPECT_DOCTEST_EVENT \o EXPECT_END

\* the states InitAdvanced starts from are those the loop reaches: when a
\* run followed from self.iter() on stands at StartEvent(k) for the first
\* time it has received ItemsAtStartEvent(k) items
AdvancedAsReached ==
    (/\ pc = "loop"
     /\ before = 0
     /\ iter.state.tag = "StartEvent"
     /\ Len(calendar.delivery_dates) < U8_MODULUS)
        => Len(items) = ItemsAtStartEvent(iter.state.index)

\* C8 below the width of the index: the same for lists shorter than 256.
DocumentBelowIndexWidth ==
    Len(calendar.delivery_dates) < U8_MODULUS => C8_Document

\* a rendering of one or more records with a fixed timestamp has returned
DocumentRendered ==
    /\ pc = "returned"
    /\ before = 0
    /\ calendar.created # None
    /\ Len(calendar.delivery_dates) >= 2
    /\ calendar.delivery_dates[1] # calendar.delivery_dates[2]

\* C9: after n calls of next on a fresh event sequencer its state is the
\* n-th successor of Begin in the fixed order, Done from the ninth call on;
\* each of the first nine calls returned a line and every later call
\* returned nothing.
C9_EventSequencer ==
    /\ ev.state = EventOrder[Min(ev_calls, 9) + 1]
    /\ Len(ev_items) = Min(ev_calls, 9)
    /\ ev_calls >= 1 => ((ev_res = None) <=> (ev_calls > 9))
    /\ ev_calls >= 1 /\ ev_calls <= 9 => ev_res = Some(ev_items[ev_calls])
    /\ \A k \in 1..Len(ev_items) :
         \/ k = 3
         \/ ev_items[k] = ExpectedEventLines(ev.delivery_date, CREATED)[k]

\* C9 witness: calls made after Done was reached returned nothing.
C9_Witness ==
    /\ ev_calls >= 11
    /\ ev.state = "Done"
    /\ ev_res = None
    /\ Len(ev_items) = 9

\* C10: the k-th BEGIN:VEVENT of the stream opens the block of the k-th
\* record of the list (there is a k-th record and the lines of the block
\* are its lines), and when the stream has ended there are as many blocks
\* as records.
C10_EmissionOrder ==
    LET begins == BeginsIn(items)
        k == EventsBefore + Cardinality(begins)
        n == Len(calendar.delivery_dates)
    IN  /\ begins # {} =>
              /\ k <= n
              /\ LET p == SetMax(begins)
                     expected == ExpectedEventLines(calendar.delivery_dates[k],
                                                    CREATED)
                 IN  \A j \in p..Min(Len(items), p + 8) :
                       \/ j - p + 1 = 3
                       \/ items[j] = expected[j - p + 1]
        /\ pc = "returned" => k = n

\* C10 below the width of the index: the same for lists shorter than 256.
EmissionOrderBelowIndexWidth ==
    Len(calendar.delivery_dates) < U8_MODULUS => C10_EmissionOrder

\* the offsets in a list of lines that hold END:VCALENDAR
EndsIn(lines) == {i \in 1..Len(lines) : Terminated(lines[i]) = EXPECT_END}

\* C11: for a record list of any length N, each date with a day after
\* it, the calls of next never abort and never begin more than N events,
\* and when the stream has ended it has emitted exactly N BEGIN:VEVENT
\* lines and END:VCALENDAR exactly once, as its last line, with the
\* sequencer Done.
C11_ReachesDone ==
    LET n == Len(calendar.delivery_dates)
        begun == EventsBefore + Cardinality(BeginsIn(items))
    IN  /\ NextDaysExist => pc # "panicked"
        /\ begun <= n
        /\ pc = "returned" =>
              /\ begun = n
              /\ EndsIn(items) = {Len(items)}
              /\ iter.state.tag = "Done"

\* C11 below the width of the index: the same for lists shorter than 256.
ReachesDoneBelowIndexWidth ==
    Len(calendar.delivery_dates) < U8_MODULUS => C11_ReachesDone

\* text starts with prefix
HasPrefix(text, prefix) ==
    /\ Len(text) >= Len(prefix)
    /\ SubSeq(text, 1, Len(prefix)) = prefix

\* the offsets in a list of lines that hold a DTSTAMP line
StampsIn(lines) == {i \in 1..Len(lines) : HasPrefix(lines[i], EXPECT_DTSTAMP)}

\* "DTSTAMP:19700813T000000Z"
EXPECT_DTSTAMP_CREATED ==
    <<68, 84, 83, 84, 65, 77, 80, 58, 49, 57, 55, 48, 48, 56, 49, 51, 84,
    48, 48, 48, 48, 48, 48, 90>>

\* C13: in the rendering of a Calendar with a fixed creation timestamp the
\* third line of every event is a DTSTAMP line, and every DTSTAMP line
\* carries that timestamp as YYYYMMDDTHHMMSSZ whatever the clock read when
\* the line was produced; for 1970-08-13T00:00:00Z the line is
\* DTSTAMP:19700813T000000Z.
C13_FixedStamp ==
    calendar.created # None =>
        /\ \A i \in BeginsIn(items) :
             i + 2 <= Len(items) => i + 2 \in StampsIn(items)
        /\ \A i \in StampsIn(items) :
             /\ items[i] = EXPECT_DTSTAMP
                           \o format_timestamp(Unwrap(calendar.created))
             /\ calendar.created = Some(CREATED)
                    => items[i] = EXPECT_DTSTAMP_CREATED

\* C13 witness: the rendering of two records with a fixed creation
\* timestamp has returned with two DTSTAMP lines.
C13_Witness ==
    /\ pc = "returned"
    /\ calendar.created # None
    /\ Cardinality(StampsIn(items)) >= 2
    /\ \A t \in Clock : Unwrap(calendar.created) # t

\* C16: the rendering of a Calendar never aborts, whatever the length of
\* its list and whatever dates its records hold.
C16_Infallible ==
    pc # "panicked"

\* C16 on lists shorter than 256 whose dates all have a day after them:
\* the rendering never aborts.
InfallibleBelowIndexWidth ==
    (Len(calendar.delivery_dates) < U8_MODULUS /\ NextDaysExist)
        => pc # "panicked"

\* the lines from the BEGIN:VEVENT at offset p on, as far as they have
\* been emitted, are the nine lines of one record of the list, in order
\* (the third one a DTSTAMP line)
BlockAt(p) ==
    \E i \in 1..Len(calendar.delivery_dates) :
        LET expected == ExpectedEventLines(calendar.delivery_dates[i], CREATED)
        IN  \A j \in p..Min(Len(items), p + 8) :
              IF j - p + 1 = 3
              THEN HasPrefix(items[j], EXPECT_DTSTAMP)
              ELSE items[j] = expected[j - p + 1]

EventEndsIn(lines) == {i \in 1..Len(lines) : lines[i] = EXPECT_END_VEVENT}

\* C26: at every point of the generation the BEGIN:VEVENT lines emitted
\* are as many as the END:VEVENT lines emitted or one more; the first
\* line emitted is BEGIN:VCALENDAR; END:VCALENDAR is emitted only when the
\* two counts are equal, and no line is emitted after it.
C26_BlockNesting ==
    LET open == Cardinality(BeginsIn(items))
                - Cardinality(EventEndsIn(items))
    IN  /\ open \in {0, 1}
        /\ (before = 0 /\ items # <<>>) => items[1] = EXPECT_BEGIN_VCALENDAR
        /\ \A i \in BeginsIn(items) \cup EventEndsIn(items) :
             ~(before = 0 /\ i = 1)
        /\ EndsIn(items) \subseteq {Len(items)}
        /\ EndsIn(items) # {} => open = 0

\* C26 witness: the generation for two records has ended, with two events
\* begun and ended.
C26_Witness ==
    /\ pc = "returned"
    /\ before = 0
    /\ Cardinality(BeginsIn(items)) = 2
    /\ Cardinality(EventEndsIn(items)) = 2
    /\ EndsIn(items) = {Len(items)}

\* the offsets of the items that are not the empty one
NonEmptyIn(lines) == {i \in 1..Len(lines) : lines[i] # <<>>}

\* C27: no line the two sequencers generate needs folding: every item is
\* at most 75 octets, the SUMMARY lines with a two-octet letter in the
\* weekday included, so the text written holds one physical line for each
\* item that is not empty and no continuation line, and the document
\* rendered for N records holds exactly 6 + 9 * N physical lines.
C27_NoFolding ==
    /\ \A i \in 1..Len(items) : Len(items[i]) <= MAX_LINE
    /\ Cardinality(CrlfAt(f)) = Cardinality(NonEmptyIn(items))
    /\ \A p \in CrlfAt(f) : p + 2 <= Len(f) => f[p + 2] # SPACE
    /\ (pc = "returned" /\ before = 0) =>
          Cardinality(CrlfAt(f)) = 6 + 9 * Len(calendar.delivery_dates)

\* C27 witness: a document of two records has been rendered, one of them
\* on a Saturday, whose SUMMARY line holds the two octets of the letter
\* o with stroke.
C27_Witness ==
    /\ pc = "returned"
    /\ before = 0
    /\ Len(calendar.delivery_dates) = 2
    /\ Cardinality(CrlfAt(f)) = 24
    /\ \E i \in 1..Len(items) :
         /\ HasPrefix(items[i], EXPECT_SUMMARY)
         /\ \E j \in 1..(Len(items[i]) - 1) :
              items[i][j] = 195 /\ items[i][j + 1] = 184

----------------------------------------------------------------------------
(* Claims about two renderings side by side, checked under SpecTwo.        *)

\* a is the start of b
IsPrefix(a, b) == Len(a) <= Len(b) /\ SubSeq(b, 1, Len(a)) = a

\* C14: of two renderings of one Calendar value with a fixed creation
\* timestamp, interleaved in any order and reading different clock values,
\* the output of one is at every moment the start of the output of the
\* other, and when both have returned the two outputs are the same octets.
C14_Deterministic ==
    calendar.created # None =>
        /\ IsPrefix(f, f2) \/ IsPrefix(f2, f)
        /\ (pc = "returned" /\ pc2 = "returned") => f = f2
        /\ pc = "returned" => IsPrefix(f2, f)
        /\ pc2 = "returned" => IsPrefix(f, f2)

\* C14 witness: two renderings of a Calendar with a record and a fixed
\* creation timestamp have both returned.
C14_Witness ==
    /\ pc = "returned"
    /\ pc2 = "returned"
    /\ calendar.created # None
    /\ Len(calendar.delivery_dates) >= 1
    /\ Len(f2) > Len(EXPECT_PREAMBLE) + Len(EXPECT_END)

\* without a creation timestamp two renderings may differ: such a pair
\* has returned
RenderingsDiffer ==
    /\ pc = "returned"
    /\ pc2 = "returned"
    /\ calendar.created = None
    /\ f # f2

----------------------------------------------------------------------------
(* Claims about the calendar line sequencer called on its own, checked     *)
(* under SpecSequencer.                                                    *)

\* C12: once END:VCALENDAR has been emitted the sequencer is Done and
\* stays Done: END:VCALENDAR is the last line it ever emitted, and every
\* call made after the one that emitted it returned nothing.
C12_DoneIsTerminal ==
    EndsIn(items) # {} =>
        /\ iter.state.tag = "Done"
        /\ EndsIn(items) = {Len(items)}
        /\ seq_calls >= Len(items)
        /\ seq_calls > Len(items) => seq_res = None

\* C12 witness: two or more calls were made after END:VCALENDAR was
\* emitted for a Calendar with records.
C12_Witness ==
    /\ EndsIn(items) # {}
    /\ seq_calls >= Len(items) + 2
    /\ seq_res = None
    /\ iter.state.tag = "Done"
    /\ Len(calendar.delivery_dates) >= 1

\* C15: no call of next and no call of self.iter() changes the Calendar:
\* its record sequence and its optional timestamp stay as they were, the
\* sequencer runs on an equal copy, and the first call of next of a
\* rendering started after an earlier one, partial or complete, returns
\* BEGIN:VCALENDAR.
C15_CalendarUnchanged ==
    [][/\ calendar'.delivery_dates = calendar.delivery_dates
       /\ calendar'.created = calendar.created
       /\ iter'.calendar = calendar
       /\ (renderings' > 1 /\ seq_calls' = 1)
              => seq_res' = Some(EXPECT_BEGIN_VCALENDAR)]_vars

\* C15 witness: a second rendering of a Calendar with records has made
\* its first call of next.
C15_Witness ==
    /\ renderings = 2
    /\ seq_calls >= 1
    /\ items[1] = EXPECT_BEGIN_VCALENDAR
    /\ Len(calendar.delivery_dates) >= 1

\* the five lines of the preamble
EXPECT_PREAMBLE_LINES ==
    <<
       \* "BEGIN:VCALENDAR"
       <<66, 69, 71, 73, 78, 58, 86, 67, 65, 76, 69, 78, 68, 65,
       82>>,
       \* "VERSION:2.0"
       <<86, 69, 82, 83, 73, 79, 78, 58, 50, 46, 48>>,
       \* "PRODID:-//Aasan//Aasan Postgang//EN"
       <<80, 82, 79, 68, 73, 68, 58, 45, 47, 47, 65, 97, 115, 97,
       110, 47, 47, 65, 97, 115, 97, 110, 32, 80, 111, 115, 116,
       103, 97, 110, 103, 47, 47, 69, 78>>,
       \* "CALSCALE:GREGORIAN"
       <<67, 65, 76, 83, 67, 65, 76, 69, 58, 71, 82, 69, 71, 79,
       82, 73, 65, 78>>,
       \* "METHOD:PUBLISH"
       <<77, 69, 84, 72, 79, 68, 58, 80, 85, 66, 76, 73, 83, 72>>
    >>

\* C25: the first five calls of next on a fresh sequencer return
\* BEGIN:VCALENDAR, VERSION:2.0, PRODID:-//Aasan//Aasan Postgang//EN,
\* CALSCALE:GREGORIAN and METHOD:PUBLISH, one each and in this order,
\* whatever the list of records; before the fifth call has returned the
\* sequencer is in its preamble, and when it has returned the state is
\* StartEvent with index 0.
C25_Preamble ==
    /\ \A k \in 1..5 :
         seq_calls >= k =>
             /\ Len(items) >= k
             /\ items[k] = EXPECT_PREAMBLE_LINES[k]
    /\ seq_calls = Len(items) \/ iter.state.tag = "Done"
    /\ seq_calls < 5 => iter.state.tag = "Preamble"
    /\ seq_calls = 5 => iter.state = [tag |-> "StartEvent", index |-> 0]

\* C25 witness: the fifth call on the sequencer of a Calendar with two
\* records has returned.
C25_Witness ==
    /\ seq_calls = 5
    /\ Len(calendar.delivery_dates) = 2
    /\ items[5] = EXPECT_PREAMBLE_LINES[5]
    /\ iter.state.tag = "StartEvent"

----------------------------------------------------------------------------
(* Claims about the postal code, checked under SpecPostal.                 *)

\* text is exactly four ASCII digits
FourDigits(text) ==
    /\ Len(text) = 4
    /\ \A i \in 1..4 : text[i] \in 48..57

\* C17: every text of exactly four ASCII digits is accepted by try_from,
\* gives the number its digits write, which lies in 0..9999, and is
\* displayed as the original text; "0001" gives 1 and is displayed "0001".
C17_PostalRoundTrip ==
    (pcode_pc # "start" /\ FourDigits(pcode_input)) =>
        /\ pcode_pc \in {"constructed", "shown"}
        /\ pcode_result.err = None
        /\ LET t == pcode_input
               v == Unwrap(pcode_result.value)
           IN  /\ v \in 0..9999
               /\ v = 1000 * (t[1] - 48) + 100 * (t[2] - 48)
                      + 10 * (t[3] - 48) + (t[4] - 48)
               /\ t = <<48, 48, 48, 49>> => v = 1
        /\ pcode_pc = "shown" => pcode_shown = Some(pcode_input)

\* C17 witness: the code made from "0001" has been displayed.
C17_Witness ==
    /\ pcode_pc = "shown"
    /\ pcode_input = <<48, 48, 48, 49>>
    /\ pcode_shown # None

\* C18: for every text that is not exactly four octets long or holds an
\* octet that is not an ASCII digit, try_from returns the invalid postal
\* code error and no postal code.
C18_PostalRejects ==
    (pcode_pc # "start" /\ ~FourDigits(pcode_input)) =>
        /\ pcode_pc = "failed"
        /\ pcode_result.err = Some("InvalidPostalCode")
        /\ pcode_result.value = None
        /\ pcode_shown = None

\* C18 witness: try_from has failed for "10000".
C18_Witness ==
    /\ pcode_pc = "failed"
    /\ pcode_input = <<49, 48, 48, 48, 48>>

\* try_from has failed for a text of four octets with a sign
PostalSignRejected ==
    /\ pcode_pc = "failed"
    /\ pcode_input = <<43, 49, 48, 48>>

----------------------------------------------------------------------------
(* Claims about the ApiKey, checked under SpecApiKey.                      *)

\* C19: every ApiKey that new or try_from returns holds a header value
\* marked sensitive, with the octets of its input, whether the input was
\* marked or not; new applied to the header value of an ApiKey gives that
\* ApiKey again.
C19_ApiKeySensitive ==
    [][/\ key_result'.value # None =>
            /\ Unwrap(key_result'.value).field0.is_sensitive
            /\ Unwrap(key_result'.value).field0.bytes = key_input.bytes
       /\ key_pc' = "new again" => key_result' = key_result]_vars

\* C19 witness: new was applied again to the header value of a key that
\* new had made from a value not marked sensitive.
C19_Witness ==
    /\ key_pc = "new again"
    /\ ~key_input.is_sensitive
    /\ Len(key_input.bytes) >= 1
    /\ key_result.value # None

\* a key has been made by new from a value already marked sensitive
KeyFromSensitive ==
    /\ key_pc = "new"
    /\ key_input.is_sensitive

\* a key has been made by try_from
KeyFromText ==
    /\ key_pc = "try_from"
    /\ Len(key_input.bytes) >= 1

----------------------------------------------------------------------------
(* Claims about the command-line run, checked under SpecMain.              *)

\* try_main returned the error of File::create
CreateFailed ==
    /\ try_res # None
    /\ Unwrap(try_res).err # None
    /\ Unwrap(Unwrap(try_res).err).op = "create"

\* the kinds of file a run leaves where it has written nothing
UntouchedKinds == {"absent", "old", "json"}

\* C28: where an output path is given, the output file has been created
\* before any fetch is made; and where creating it failed, no fetch is
\* made, nothing is written to any file or to the standard output, and
\* the process ends with the failure exit code.
C28_CreateBeforeFetch ==
    /\ (cli.output # None /\ fetches > 0) =>
          /\ file = cli.output
          /\ fs[Unwrap(cli.output)].kind \notin UntouchedKinds
    /\ CreateFailed =>
          /\ fetches = 0
          /\ cal = None
          /\ file = None
          /\ stdout = "nothing"
          /\ \A p \in Paths : fs[p].kind \in UntouchedKinds
          /\ main_pc \in {"returned", "exited"}
          /\ main_pc = "exited" => exit_code = Some("FAILURE")

\* C28 witness: a run with the API and an output path has ended after
\* File::create failed.
C28_Witness ==
    /\ main_pc = "exited"
    /\ CreateFailed
    /\ cli.command.tag = "Api"
    /\ cli.output # None
    /\ exit_code = Some("FAILURE")

====
